---- MODULE Spec2Model ----
(***************************************************************************)
(* Verification model of PDFOptimizer: the ConfigProfile record            *)
(* management (core/config_models.py), the bookmark writer                 *)
(* (core/add_bookmark.py), the handle_exception decorator (core/utils.py), *)
(* the worker threads and their start/stop wiring (ui/main_window.py,      *)
(* ui/tabs/base_tab.py, core/worker.py), the per-file batch loops, the    *)
(* OpenAI-compatible OCR page loop and the backend dispatch (core/ocr.py), *)
(* the ConfigManager (core/config_manager.py) and the save handler of its  *)
(* dialog (ui/config_manager_dialog.py), the AddBookmarkWorker and the     *)
(* merge tab (ui/tabs/merge_tab.py).                                       *)
(*                                                                         *)
(* Each subsystem has its own specification (SpecProfile, ...); the        *)
(* variables of the other subsystems stay at their initial value.          *)
(***************************************************************************)
EXTENDS Integers, Sequences, FiniteSets, TLC

VARIABLES
    \* ---- ConfigProfile (core/config_models.py) ----
    configs,            \* list of APIConfig records [id, name, is_default]
    active_config_id,   \* id or None
    default_config_id,  \* id or None
    nextId,             \* next fresh uuid
    call,               \* the last ConfigProfile call: [op, id, ret, pre]
    \* ---- add_bookmarks_to_pdf (core/add_bookmark.py) ----
    bm_pc,              \* "idle", "ready" (called), "done" (returned)
    bm_in,              \* [bookmarks, total_pages, outline, io]
    bm_out,             \* [result, outline, written]
    \* ---- handle_exception (core/utils.py) ----
    he_pc,              \* "idle", "ready" (wrapper called), "done"
    he_in,              \* the wrapped function: [name, outcome, msg, value]
    he_out,             \* [propagated, result]
    \* ---- MainWindow and its worker threads (ui/main_window.py) ----
    gui_on,             \* TRUE when the main window has been constructed
    gs_installed,       \* MainWindow.gs_installed
    current_tab,        \* tab_widget.currentIndex()
    rows,               \* rowCount() of the file table of every tab
    controls,           \* enabled state of the buttons: [start, stop, clear, select]
    workers,            \* list of the live worker threads: [op, st, flag, left, current]
    started,            \* number of worker threads started so far
    \* ---- one worker thread running a per-file batch loop ----
    bt_loop,            \* which loop the thread runs
    bt_outcomes,        \* per file: what the core function does with it
    bt_pc,              \* position of the thread
    bt_i,               \* loop index i
    bt_is_running,      \* the worker's _is_running flag
    bt_signals,         \* the signals emitted so far, in order
    bt_processed,       \* indices of the files handed to the core function
    bt_stop_iter,       \* first iteration not yet begun when stop() was called
    \* ---- _process_with_openai_compatible (core/ocr.py) and its caller ----
    oc_caller,          \* "OcrWorker", or a caller that passes check_running
    oc_total,           \* len(image_paths)
    oc_pc,              \* position of the thread
    oc_i,               \* page loop index i
    oc_attempt,         \* attempt of the retry loop
    oc_page_content,    \* page_content of the current page
    oc_api_success,     \* api_success of the current page
    oc_is_running,      \* the worker's _is_running flag
    oc_requests,        \* the API requests issued so far: [page, attempt, outcome]
    oc_results,         \* full_markdown_content: per page what was appended
    oc_stop_page,       \* first page iteration not yet begun when stop() was called
    \* ---- process_images_with_model (core/ocr.py) ----
    dp_provider,        \* api_provider
    dp_pdf_path,        \* pdf_path
    dp_images,          \* len(image_paths)
    dp_pc,              \* position of the call
    dp_invoked,         \* the backends invoked so far, in order
    dp_result,          \* the returned dict's "success", or "none"
    \* ---- ProcessingWorker (core/worker.py) ----
    pw_target,          \* the target function: signals it emits, how it ends
    pw_pc,              \* position of the thread in run()
    pw_is_running,      \* _is_running
    pw_invoked,         \* the target function was called
    pw_signals,         \* the signals emitted so far, in order
    pw_stopped,         \* "no", or where run() was when stop() was called
    \* ---- ConfigManager (core/config_manager.py) ----
    cm_disk,            \* the config directory, the clock and the uuid source
    cm_log,             \* the calls made so far: what each saw and returned
    \* ---- AddBookmarkWorker (ui/main_window.py) ----
    ab_outcomes,        \* per file: what add_bookmarks_to_pdf does with it
    ab_pc,              \* position of the thread in run()
    ab_k,               \* file index of the loop of batch_add_bookmarks_to_pdfs
    ab_i,               \* index i of the loop over the results
    ab_is_running,      \* _is_running
    ab_results,         \* results: per file its "success"
    ab_written,         \* indices of the files whose output file was saved
    ab_signals,         \* the signals emitted so far, in order
    ab_stop_file,       \* first file not yet begun when stop() was called
    \* ---- MergeTabWidget (ui/tabs/merge_tab.py) and its ProcessingWorker ----
    mg_in,              \* [rows, output_path, engine, body]: table, dialog, combo
    mg_pc,              \* position of start_task and of the worker's run()
    mg_is_running,      \* the worker's _is_running
    mg_call,            \* the target, its arguments, whether its body ran, its result
    mg_events           \* what the tab has shown and emitted so far, in order

profileVars == <<configs, active_config_id, default_config_id, nextId, call>>
bookmarkVars == <<bm_pc, bm_in, bm_out>>
handleVars == <<he_pc, he_in, he_out>>

guiVars == <<gui_on, gs_installed, current_tab, rows, controls, workers, started>>

batchVars == <<bt_loop, bt_outcomes, bt_pc, bt_i, bt_is_running, bt_signals,
               bt_processed, bt_stop_iter>>

ocrVars == <<oc_caller, oc_total, oc_pc, oc_i, oc_attempt, oc_page_content,
             oc_api_success, oc_is_running, oc_requests, oc_results, oc_stop_page>>

dispatchVars == <<dp_provider, dp_pdf_path, dp_images, dp_pc, dp_invoked, dp_result>>

workerVars == <<pw_target, pw_pc, pw_is_running, pw_invoked, pw_signals, pw_stopped>>

managerVars == <<cm_disk, cm_log>>

addBookmarkVars == <<ab_outcomes, ab_pc, ab_k, ab_i, ab_is_running, ab_results,
                     ab_written, ab_signals, ab_stop_file>>

mergeVars == <<mg_in, mg_pc, mg_is_running, mg_call, mg_events>>

vars == <<profileVars, bookmarkVars, handleVars, guiVars, batchVars, ocrVars,
          dispatchVars, workerVars, managerVars, addBookmarkVars, mergeVars>>

\* Python's None, for the id references
None == 0

----------------------------------------------------------------------------
(***************************************************************************)
(* ConfigProfile                                                           *)
(***************************************************************************)

\* bounds
MaxConfigs == 3
MaxIds == 3

Names == {"a", "b", "c"}
Ids == 1..MaxIds

\* mutation of ClearFlags: the other configs keep their flag
ClearFlags_Keep(cs) == cs

\* for c in self.configs: c.is_default = False
ClearFlags(cs) == [k \in 1..Len(cs) |-> [cs[k] EXCEPT !.is_default = FALSE]]

\* index of the first config with this id, 0 when there is none
IndexOfId(cs, id) ==
    IF \E k \in 1..Len(cs) : cs[k].id = id
    THEN CHOOSE k \in 1..Len(cs) :
            /\ cs[k].id = id
            /\ \A j \in 1..(k - 1) : cs[j].id # id
    ELSE 0

\* ConfigProfile.get_config: truthy iff found
get_config(cs, id) == IndexOfId(cs, id) # 0

\* list.remove of the element at index k
RemoveAt(cs, k) == [j \in 1..(Len(cs) - 1) |-> IF j < k THEN cs[j] ELSE cs[j + 1]]

NameTaken(cs, name) == \E k \in 1..Len(cs) : cs[k].name = name

ProfileStart ==
    /\ configs = <<>>
    /\ active_config_id = None
    /\ default_config_id = None
    /\ nextId = 1
    /\ call = [op |-> "init", id |-> None, ret |-> TRUE,
               pre |-> [configs |-> <<>>, active |-> None, default |-> None]]

PreState == [configs |-> configs, active |-> active_config_id,
             default |-> default_config_id]

\* mutation of AfterRejected: the flags are cleared before the name is checked
AfterRejected_Cleared(cs, is_default) == IF is_default THEN ClearFlags(cs) ELSE cs

\* the list after "if any(c.name == config.name ...): return False", which
\* comes before anything is touched
AfterRejected(cs, is_default) == cs

\* ConfigProfile.add_config(config), config a new APIConfig with a fresh uuid
add_config(name, is_default) ==
    /\ nextId <= MaxIds
    /\ Len(configs) < MaxConfigs
    /\ IF NameTaken(configs, name)
       THEN /\ UNCHANGED <<nextId, active_config_id, default_config_id>>
            /\ configs' = AfterRejected(configs, is_default)
            /\ call' = [op |-> "add_config", id |-> nextId, ret |-> FALSE, pre |-> PreState,
                        name |-> name, is_default |-> is_default]
       ELSE LET cleared == IF is_default THEN ClearFlags(configs) ELSE configs
                first == (configs = <<>>)
                cfg == [id |-> nextId, name |-> name,
                        is_default |-> (is_default \/ first)]
            IN  /\ nextId' = nextId + 1
                /\ configs' = Append(cleared, cfg)
                /\ default_config_id' =
                      IF is_default \/ first THEN nextId ELSE default_config_id
                /\ active_config_id' = IF first THEN nextId ELSE active_config_id
                /\ call' = [op |-> "add_config", id |-> nextId, ret |-> TRUE, pre |-> PreState,
                            name |-> name, is_default |-> is_default]

\* mutation of ActiveAfterRemove: the active reference is left alone
ActiveAfterRemove_Stale(rest, config_id) == active_config_id

\* remove_config, "if self.active_config_id == config_id: ..." with rest the
\* list after self.configs.remove(config)
ActiveAfterRemove(rest, config_id) ==
    IF active_config_id = config_id
    THEN IF default_config_id # config_id /\ get_config(rest, default_config_id)
         THEN default_config_id
         ELSE IF rest # <<>> THEN rest[1].id ELSE None
    ELSE active_config_id

\* ConfigProfile.remove_config(config_id)
remove_config(config_id) ==
    /\ UNCHANGED nextId
    /\ IF ~get_config(configs, config_id)
       THEN /\ UNCHANGED <<configs, active_config_id, default_config_id>>
            /\ call' = [op |-> "remove_config", id |-> config_id, ret |-> FALSE, pre |-> PreState]
       ELSE LET rest == RemoveAt(configs, IndexOfId(configs, config_id))
                newActive == ActiveAfterRemove(rest, config_id)
                defaultRemoved == (default_config_id = config_id)
            IN  /\ active_config_id' = newActive
                /\ configs' =
                      IF defaultRemoved /\ rest # <<>>
                      THEN [rest EXCEPT ![1].is_default = TRUE]
                      ELSE rest
                /\ default_config_id' =
                      IF defaultRemoved
                      THEN IF rest # <<>> THEN rest[1].id ELSE None
                      ELSE default_config_id
                /\ call' = [op |-> "remove_config", id |-> config_id, ret |-> TRUE, pre |-> PreState]

\* ConfigProfile.update_config(config_id, config), config a new APIConfig
update_config(config_id, name, is_default) ==
    /\ UNCHANGED <<nextId, active_config_id>>
    /\ IF ~get_config(configs, config_id)
       THEN /\ UNCHANGED <<configs, default_config_id>>
            /\ call' = [op |-> "update_config", id |-> config_id, ret |-> FALSE, pre |-> PreState]
       ELSE LET cleared == IF is_default THEN ClearFlags(configs) ELSE configs
                cfg == [id |-> config_id, name |-> name, is_default |-> is_default]
            IN  /\ configs' = [cleared EXCEPT ![IndexOfId(configs, config_id)] = cfg]
                /\ default_config_id' =
                      IF is_default THEN config_id ELSE default_config_id
                /\ call' = [op |-> "update_config", id |-> config_id, ret |-> TRUE, pre |-> PreState]

\* ConfigProfile.set_active_config(config_id)
set_active_config(config_id) ==
    /\ UNCHANGED <<nextId, configs, default_config_id>>
    /\ IF get_config(configs, config_id)
       THEN /\ active_config_id' = config_id
            /\ call' = [op |-> "set_active_config", id |-> config_id, ret |-> TRUE, pre |-> PreState]
       ELSE /\ UNCHANGED active_config_id
            /\ call' = [op |-> "set_active_config", id |-> config_id, ret |-> FALSE, pre |-> PreState]

\* ConfigProfile.clear_default()
clear_default ==
    /\ UNCHANGED <<nextId, active_config_id>>
    /\ configs' = ClearFlags(configs)
    /\ default_config_id' = None
    /\ call' = [op |-> "clear_default", id |-> None, ret |-> TRUE, pre |-> PreState]

\* ConfigProfile.set_default_config(config_id)
set_default_config(config_id) ==
    /\ UNCHANGED <<nextId, active_config_id>>
    /\ IF ~get_config(configs, config_id)
       THEN /\ UNCHANGED <<configs, default_config_id>>
            /\ call' = [op |-> "set_default_config", id |-> config_id, ret |-> FALSE, pre |-> PreState]
       ELSE /\ configs' = [ClearFlags(configs) EXCEPT
                              ![IndexOfId(configs, config_id)].is_default = TRUE]
            /\ default_config_id' = config_id
            /\ call' = [op |-> "set_default_config", id |-> config_id, ret |-> TRUE, pre |-> PreState]

AddConfig == \E n \in Names, d \in BOOLEAN : add_config(n, d)
RemoveConfig == \E id \in Ids : remove_config(id)
UpdateConfig == \E id \in Ids, n \in Names, d \in BOOLEAN : update_config(id, n, d)
SetActiveConfig == \E id \in Ids : set_active_config(id)
SetDefaultConfig == \E id \in Ids : set_default_config(id)
ClearDefault == clear_default

ProfileStep ==
    \/ AddConfig
    \/ RemoveConfig
    \/ UpdateConfig
    \/ SetActiveConfig
    \/ SetDefaultConfig
    \/ ClearDefault

\* the calls that edit the list of configs and its default
ProfileEditsStep ==
    \/ AddConfig
    \/ RemoveConfig
    \/ UpdateConfig
    \/ SetDefaultConfig

DefaultFlagged(cs) == {k \in 1..Len(cs) : cs[k].is_default}

\* C1: after any sequence of ConfigProfile operations from an empty profile,
\* at most one config of the list has is_default set.
C1_AtMostOneDefault == Cardinality(DefaultFlagged(configs)) <= 1

\* a second config took the default over from a flagged one
C1_Witness ==
    /\ call.op \in {"add_config", "update_config", "set_default_config"}
    /\ call.ret
    /\ DefaultFlagged(call.pre.configs) # {}
    /\ \E k \in DefaultFlagged(configs) : configs[k].id # call.pre.default
    /\ Len(configs) >= 2

\* C2: whenever the config list is non-empty, default_config_id is the id of
\* a config in the list.
C2_DefaultExistsIfNonEmpty ==
    configs # <<>> =>
        (default_config_id # None /\ get_config(configs, default_config_id))

\* C3: active_config_id is None or the id of a listed config, None only when
\* the list is empty; set_active_config with an unknown id returns False and
\* leaves active_config_id unchanged.
C3_ActiveValid ==
    /\ active_config_id # None => get_config(configs, active_config_id)
    /\ active_config_id = None => configs = <<>>
    /\ (call.op = "set_active_config" /\ ~get_config(call.pre.configs, call.id))
          => (call.ret = FALSE /\ active_config_id = call.pre.active)

\* the active config was removed and another config became active
C3_Witness ==
    /\ call.op = "remove_config"
    /\ call.ret
    /\ call.pre.active = call.id
    /\ configs # <<>>
    /\ active_config_id # call.id

\* C19: add_config with a name that a config of the profile has returns
\* False and leaves the list with its flags, active_config_id and
\* default_config_id as they were, whatever is_default the config carries.
C19_DuplicateNameRejected ==
    (call.op = "add_config" /\ NameTaken(call.pre.configs, call.name)) =>
        /\ call.ret = FALSE
        /\ configs = call.pre.configs
        /\ active_config_id = call.pre.active
        /\ default_config_id = call.pre.default

\* a config with is_default set and a taken name was rejected while another
\* config carried the default flag
C19_Witness ==
    /\ call.op = "add_config"
    /\ NameTaken(call.pre.configs, call.name)
    /\ call.is_default
    /\ ~call.ret
    /\ DefaultFlagged(configs) # {}
    /\ Len(configs) >= 2

\* C20: remove_config of the active config makes the default config active
\* when that is another config still in the list, else the first remaining
\* config, else None; remove_config of the default config makes the first
\* remaining config the default, None when none remains; remove_config of
\* an unknown id returns False and changes nothing.
C20_RemoveReassigns ==
    call.op = "remove_config" =>
        IF ~get_config(call.pre.configs, call.id)
        THEN /\ call.ret = FALSE
             /\ configs = call.pre.configs
             /\ active_config_id = call.pre.active
             /\ default_config_id = call.pre.default
        ELSE /\ call.ret = TRUE
             /\ Len(configs) = Len(call.pre.configs) - 1
             /\ ~get_config(configs, call.id)
             /\ call.pre.active = call.id =>
                   active_config_id =
                      IF call.pre.default # call.id /\ get_config(configs, call.pre.default)
                      THEN call.pre.default
                      ELSE IF configs # <<>> THEN configs[1].id ELSE None
             /\ call.pre.default = call.id =>
                   IF configs # <<>>
                   THEN default_config_id = configs[1].id /\ configs[1].is_default
                   ELSE default_config_id = None

\* the active config was removed and the default config, which is not the
\* first of the remaining ones, became active
C20_Witness ==
    /\ call.op = "remove_config"
    /\ call.ret
    /\ call.pre.active = call.id
    /\ call.pre.default # call.id
    /\ Len(configs) >= 2
    /\ active_config_id = call.pre.default
    /\ configs[1].id # active_config_id

\* C23: after any sequence of add_config, update_config, remove_config and
\* set_default_config from an empty profile, no two configs of the list
\* have the same name.
C23_NamesUnique ==
    \A j, k \in 1..Len(configs) : configs[j].name = configs[k].name => j = k

\* C24: after any sequence of add_config, remove_config, update_config and
\* set_default_config from an empty profile, a config has is_default set
\* if and only if its id is default_config_id.
C24_FlagMatchesDefaultId ==
    \A k \in 1..Len(configs) :
        configs[k].is_default <=> (configs[k].id = default_config_id)

----------------------------------------------------------------------------
(***************************************************************************)
(* add_bookmarks_to_pdf                                                    *)
(***************************************************************************)

\* bounds
MaxBookmarks == 2
MaxTitleLen == 2
MaxPages == 2

\* characters of a title: a blank and a non-blank
Chars == {" ", "x"}
Titles == UNION {[1..n -> Chars] : n \in 0..MaxTitleLen}
PageNumbers == 0..(MaxPages + 1)
BookmarkRecords == [page : PageNumbers, title : Titles]
BookmarkLists == UNION {[1..n -> BookmarkRecords] : n \in 0..MaxBookmarks}
\* the outline the input PDF already has
OldOutlines == {<<>>, <<[page |-> 1, title |-> <<"o">>]>>}
\* pikepdf.open / pdf.save succeed or raise
IoOutcomes == {"ok", "open_raises", "save_raises"}

RECURSIVE LStrip(_)
LStrip(t) == IF t # <<>> /\ Head(t) = " " THEN LStrip(Tail(t)) ELSE t

RECURSIVE RStrip(_)
RStrip(t) ==
    IF t # <<>> /\ t[Len(t)] = " " THEN RStrip(SubSeq(t, 1, Len(t) - 1)) ELSE t

\* str.strip()
Strip(t) == RStrip(LStrip(t))

\* mutation of PageOutOfRange: page 0 passes, page total_pages does not
PageOutOfRange_OffByOne(page, total_pages) == page < 0 \/ page >= total_pages

\* "if page <= 0 or page > total_pages: continue"
PageOutOfRange(page, total_pages) == page <= 0 \/ page > total_pages

\* the filter loop over bookmarks, building valid_bookmarks
RECURSIVE ValidBookmarks(_, _)
ValidBookmarks(bms, total_pages) ==
    IF bms = <<>> THEN <<>>
    ELSE LET bm == Head(bms)
             title == Strip(bm.title)
             rest == ValidBookmarks(Tail(bms), total_pages)
         IN  IF title = <<>> THEN rest
             ELSE IF PageOutOfRange(bm.page, total_pages) THEN rest
             ELSE <<[page |-> bm.page, title |-> title]>> \o rest

BmFailure(msg) == [success |-> FALSE, message |-> msg, bookmarks_count |-> None]

BookmarkStart ==
    /\ bm_pc = "ready"
    /\ bm_in \in [bookmarks : BookmarkLists, total_pages : 0..MaxPages,
                  outline : OldOutlines, io : IoOutcomes]
    /\ bm_out = [result |-> BmFailure("none"), outline |-> <<>>, written |-> FALSE]

BookmarkIdle ==
    /\ bm_pc = "idle"
    /\ bm_in = [bookmarks |-> <<>>, total_pages |-> 0, outline |-> <<>>, io |-> "ok"]
    /\ bm_out = [result |-> BmFailure("none"), outline |-> <<>>, written |-> FALSE]

\* add_bookmarks_to_pdf(input_path, output_path, bookmarks)
add_bookmarks_to_pdf ==
    /\ bm_pc = "ready"
    /\ bm_pc' = "done"
    /\ UNCHANGED bm_in
    /\ LET valid == ValidBookmarks(bm_in.bookmarks, bm_in.total_pages)
       IN  IF bm_in.bookmarks = <<>>
           THEN bm_out' = [result |-> BmFailure("no bookmark data"),
                           outline |-> bm_in.outline, written |-> FALSE]
           ELSE IF bm_in.io = "open_raises"
           THEN bm_out' = [result |-> BmFailure("add failed"),
                           outline |-> bm_in.outline, written |-> FALSE]
           ELSE IF valid = <<>>
           THEN bm_out' = [result |-> BmFailure("all invalid"),
                           outline |-> bm_in.outline, written |-> FALSE]
           ELSE IF bm_in.io = "save_raises"
           THEN \E partial \in BOOLEAN :
                    bm_out' = [result |-> BmFailure("add failed"),
                               outline |-> bm_in.outline \o valid,
                               written |-> partial]
           ELSE bm_out' = [result |-> [success |-> TRUE, message |-> "added",
                                       bookmarks_count |-> Len(valid)],
                           outline |-> bm_in.outline \o valid,
                           written |-> TRUE]

BookmarkStep == add_bookmarks_to_pdf

\* indices of the input bookmarks with a non-blank title and a page of the PDF
ValidIndices ==
    {k \in 1..Len(bm_in.bookmarks) :
        /\ \E c \in 1..Len(bm_in.bookmarks[k].title) : bm_in.bookmarks[k].title[c] # " "
        /\ 1 <= bm_in.bookmarks[k].page
        /\ bm_in.bookmarks[k].page <= bm_in.total_pages}

\* t2 is t without its leading and trailing blanks
IsTrimOf(t2, t) ==
    \E a, b \in 1..Len(t) :
        /\ t2 = SubSeq(t, a, b)
        /\ t[a] # " " /\ t[b] # " "
        /\ \A k \in 1..Len(t) : (k < a \/ k > b) => t[k] = " "

\* the entries appended to the outline by the call
Appended == SubSeq(bm_out.outline, Len(bm_in.outline) + 1, Len(bm_out.outline))

\* C4: add_bookmarks_to_pdf appends to the outline exactly the input
\* bookmarks with a non-blank title and 1 <= page <= page count, in input
\* order; bookmarks_count is their number; with no valid bookmark it returns
\* success False and writes no output file.
C4_BookmarksFiltered ==
    bm_pc = "done" =>
        /\ bm_out.result.success =>
              /\ Len(Appended) = Cardinality(ValidIndices)
              /\ \A k \in ValidIndices :
                    LET j == Cardinality({m \in ValidIndices : m <= k})
                    IN  /\ Appended[j].page = bm_in.bookmarks[k].page
                        /\ IsTrimOf(Appended[j].title, bm_in.bookmarks[k].title)
              /\ bm_out.result.bookmarks_count = Cardinality(ValidIndices)
              /\ bm_out.written
        /\ ValidIndices = {} =>
              /\ ~bm_out.result.success
              /\ ~bm_out.written
              /\ bm_out.outline = bm_in.outline
        /\ (ValidIndices # {} /\ bm_in.io = "ok") => bm_out.result.success

\* a valid bookmark is kept and an invalid one before it is dropped
C4_Witness ==
    /\ bm_pc = "done"
    /\ bm_out.result.success
    /\ Len(bm_in.bookmarks) = 2
    /\ ValidIndices = {2}
    /\ bm_in.bookmarks[2].title # Strip(bm_in.bookmarks[2].title)
    /\ bm_in.bookmarks[2].page = bm_in.total_pages

----------------------------------------------------------------------------
(***************************************************************************)
(* handle_exception                                                        *)
(***************************************************************************)

\* bound
MaxMsgLen == 2

FuncNames == {"split_pdf", "process_images_with_model"}
\* what the wrapped function does: return a dict, raise an Exception
\* subclass, raise a BaseException that is no Exception (SystemExit, ...)
FuncOutcomes == {"return", "raise_Exception", "raise_BaseException"}
\* str(e), a sequence of characters
ErrorStrings == UNION {[1..n -> {"p", "q"}] : n \in 0..MaxMsgLen}

\* mutation of ErrorMessage: the bare str(e)
ErrorMessage_Bare(name, e) == e

\* f"函数 '{func.__name__}' 执行异常: {str(e)}", the two literal parts being
\* written "FUNC '" and "' RAISED: "
ErrorMessage(name, e) == <<"FUNC '", name, "' RAISED: ">> \o e

HandleStart ==
    /\ he_pc = "ready"
    /\ he_in \in [name : FuncNames, outcome : FuncOutcomes, msg : ErrorStrings,
                  value : [success : BOOLEAN, message : {<<"m">>}]]
    /\ he_out = [propagated |-> FALSE, result |-> [success |-> TRUE, message |-> <<>>]]

HandleIdle ==
    /\ he_pc = "idle"
    /\ he_in = [name |-> "split_pdf", outcome |-> "return", msg |-> <<>>,
                value |-> [success |-> TRUE, message |-> <<"m">>]]
    /\ he_out = [propagated |-> FALSE, result |-> [success |-> TRUE, message |-> <<>>]]

\* handle_exception.wrapper(*args, **kwargs)
wrapper ==
    /\ he_pc = "ready"
    /\ he_pc' = "done"
    /\ UNCHANGED he_in
    /\ he_out' =
         CASE he_in.outcome = "return" ->
                [propagated |-> FALSE, result |-> he_in.value]
           [] he_in.outcome = "raise_Exception" ->
                [propagated |-> FALSE,
                 result |-> [success |-> FALSE,
                             message |-> ErrorMessage(he_in.name, he_in.msg)]]
           [] he_in.outcome = "raise_BaseException" ->
                [propagated |-> TRUE, result |-> he_out.result]

HandleStep == wrapper

\* C5 as stated: no exception raised inside a wrapped operation propagates,
\* and the result has success False and the message str(e).
C5_MessageIsStrE ==
    (he_pc = "done" /\ he_in.outcome # "return") =>
        /\ ~he_out.propagated
        /\ he_out.result.success = FALSE
        /\ he_out.result.message = he_in.msg

\* C5 amended: an exception that is an instance of Exception never
\* propagates; the result has success False and its message is str(e)
\* prefixed by the name of the wrapped function.
C5_MessageNamesFunction ==
    (he_pc = "done" /\ he_in.outcome = "raise_Exception") =>
        /\ ~he_out.propagated
        /\ he_out.result.success = FALSE
        /\ he_out.result.message = <<"FUNC '", he_in.name, "' RAISED: ">> \o he_in.msg
        /\ SubSeq(he_out.result.message, 4, Len(he_out.result.message)) = he_in.msg

\* the wrapper has converted an exception with a non-empty str(e)
C5_Witness ==
    /\ he_pc = "done"
    /\ he_in.outcome = "raise_Exception"
    /\ Len(he_in.msg) = MaxMsgLen
    /\ ~he_out.propagated

----------------------------------------------------------------------------
(***************************************************************************)
(* MainWindow: start and stop of the worker threads                        *)
(***************************************************************************)

\* bounds
MaxFiles == 2       \* PDF files listed in all the tables together
MaxWorkers == 2     \* worker threads started in one run of the application

\* tab indices, in addTab order
TAB_OPTIMIZE == 0
TAB_MERGE == 1
TAB_CURVES == 2
TAB_PDF_TO_IMAGE == 3
TAB_SPLIT == 4
TAB_BOOKMARK == 5
TAB_OCR == 6
Tabs == TAB_OPTIMIZE..TAB_OCR

\* the workers whose run() is a per-file loop that reads _is_running
LoopTabs == {TAB_OPTIMIZE, TAB_CURVES, TAB_PDF_TO_IMAGE, TAB_SPLIT}

RECURSIVE SumRows(_, _)
SumRows(rws, t) == IF t < 0 THEN 0 ELSE rws[t] + SumRows(rws, t - 1)
TotalRows(rws) == SumRows(rws, TAB_OCR)

\* MainWindow._update_controls_state(is_task_running) with the tables rws
UpdateControls(is_task_running, rws) ==
    [start  |-> [t \in Tabs |->
                    /\ ~is_task_running
                    /\ rws[t] > 0
                    /\ (t = TAB_CURVES => gs_installed)],
     stop   |-> [t \in Tabs |-> is_task_running],
     clear  |-> [t \in Tabs |-> ~is_task_running /\ rws[t] > 0],
     select |-> ~is_task_running]

\* a thread whose run() has returned and whose finished signal is queued; its
\* other fields are not read any more
EndedWorker(op) == [op |-> op, st |-> "ended", flag |-> FALSE, left |-> 0,
                    current |-> FALSE]

\* the worker self.optimize_worker, self.merge_worker, ... refers to has
\* current = TRUE; hasattr(self, 'x_worker') and self.x_worker.isRunning()
isRunning(t) ==
    \E w \in 1..Len(workers) :
        workers[w].op = t /\ workers[w].current /\ workers[w].st = "running"

\* self.x_worker = XWorker(files, ...); connect; self.x_worker.start()
StartWorker(t) ==
    /\ started < MaxWorkers
    /\ started' = started + 1
    /\ controls' = UpdateControls(TRUE, rows)
    /\ workers' = Append(
                      [w \in 1..Len(workers) |->
                          IF workers[w].op = t /\ workers[w].st = "running"
                          THEN [workers[w] EXCEPT !.current = FALSE]
                          ELSE workers[w]],
                      [op |-> t, st |-> "running", flag |-> TRUE,
                       left |-> rows[t], current |-> TRUE])
    /\ UNCHANGED <<gui_on, gs_installed, current_tab, rows>>

GuiStart ==
    /\ gui_on = TRUE
    /\ gs_installed \in BOOLEAN
    /\ current_tab = TAB_OPTIMIZE
    /\ rows = [t \in Tabs |-> 0]
    /\ controls = UpdateControls(FALSE, [t \in Tabs |-> 0])
    /\ workers = <<>>
    /\ started = 0

GuiIdle ==
    /\ gui_on = FALSE
    /\ gs_installed = FALSE
    /\ current_tab = TAB_OPTIMIZE
    /\ rows = [t \in Tabs |-> 0]
    /\ controls = [start |-> [t \in Tabs |-> FALSE], stop |-> [t \in Tabs |-> FALSE],
                   clear |-> [t \in Tabs |-> FALSE], select |-> FALSE]
    /\ workers = <<>>
    /\ started = 0

\* tab_widget.currentChanged -> lambda: self._update_controls_state()
SwitchTab ==
    \E t \in Tabs \ {current_tab} :
        /\ current_tab' = t
        /\ controls' = UpdateControls(FALSE, rows)
        /\ UNCHANGED <<gui_on, gs_installed, rows, workers, started>>

\* add_files_to_optimize, ..., add_files_to_ocr on the current tab
add_files(n) ==
    LET t == current_tab
        newRows == IF t = TAB_OCR THEN [rows EXCEPT ![t] = 1]
                   ELSE [rows EXCEPT ![t] = @ + n]
    IN  /\ TotalRows(newRows) <= MaxFiles
        /\ IF t = TAB_CURVES /\ ~gs_installed
           THEN UNCHANGED <<rows, controls>>
           ELSE /\ rows' = newRows
                /\ controls' = UpdateControls(FALSE, newRows)
        /\ UNCHANGED <<gui_on, gs_installed, current_tab, workers, started>>

\* MainWindow.select_files: the select button of the current tab is clicked
SelectFiles ==
    /\ controls.select
    /\ \E n \in 1..MaxFiles : add_files(n)

\* MainWindow.dropEvent: PDF files are dropped on the window
DropFiles == \E n \in 1..MaxFiles : add_files(n)

\* MainWindow.clear_current_list
ClearList ==
    /\ controls.clear[current_tab]
    /\ rows' = [rows EXCEPT ![current_tab] = 0]
    /\ controls' = UpdateControls(FALSE, rows')
    /\ UNCHANGED <<gui_on, gs_installed, current_tab, workers, started>>

\* MainWindow.start_optimization
start_optimization ==
    /\ current_tab = TAB_OPTIMIZE /\ controls.start[TAB_OPTIMIZE]
    /\ IF rows[TAB_OPTIMIZE] = 0 THEN UNCHANGED guiVars
       ELSE StartWorker(TAB_OPTIMIZE)

\* MainWindow.start_merge_pdfs; the save dialog may be cancelled
start_merge_pdfs ==
    /\ current_tab = TAB_MERGE /\ controls.start[TAB_MERGE]
    /\ \E output_path_chosen \in BOOLEAN :
          IF rows[TAB_MERGE] < 2 \/ ~output_path_chosen THEN UNCHANGED guiVars
          ELSE StartWorker(TAB_MERGE)

\* MainWindow.start_conversion_to_curves
start_conversion_to_curves ==
    /\ current_tab = TAB_CURVES /\ controls.start[TAB_CURVES]
    /\ IF rows[TAB_CURVES] = 0 THEN UNCHANGED guiVars
       ELSE StartWorker(TAB_CURVES)

\* MainWindow.start_pdf_to_image_conversion; the directory dialog may be cancelled
start_pdf_to_image_conversion ==
    /\ current_tab = TAB_PDF_TO_IMAGE /\ controls.start[TAB_PDF_TO_IMAGE]
    /\ \E output_dir_chosen \in BOOLEAN :
          IF rows[TAB_PDF_TO_IMAGE] = 0 \/ ~output_dir_chosen THEN UNCHANGED guiVars
          ELSE StartWorker(TAB_PDF_TO_IMAGE)

\* MainWindow.start_split; the directory dialog may be cancelled
start_split ==
    /\ current_tab = TAB_SPLIT /\ controls.start[TAB_SPLIT]
    /\ \E output_dir_chosen \in BOOLEAN :
          IF rows[TAB_SPLIT] = 0 \/ ~output_dir_chosen THEN UNCHANGED guiVars
          ELSE StartWorker(TAB_SPLIT)

\* MainWindow.start_add_bookmarks; returns early when the directory dialog is
\* cancelled or no bookmarks have been edited
start_add_bookmarks ==
    /\ current_tab = TAB_BOOKMARK /\ controls.start[TAB_BOOKMARK]
    /\ \E bookmarks_ready \in BOOLEAN :
          IF rows[TAB_BOOKMARK] = 0 \/ ~bookmarks_ready THEN UNCHANGED guiVars
          ELSE StartWorker(TAB_BOOKMARK)

\* MainWindow.start_ocr_conversion; returns early when the user declines to
\* go on without Pandoc or no API key is configured
start_ocr_conversion ==
    /\ current_tab = TAB_OCR /\ controls.start[TAB_OCR]
    /\ \E configured \in BOOLEAN :
          IF rows[TAB_OCR] = 0 \/ ~configured THEN UNCHANGED guiVars
          ELSE StartWorker(TAB_OCR)

\* MainWindow.stop_current_task: a stop button is clicked
stop_current_task ==
    /\ controls.stop[current_tab]
    /\ workers' = [w \in 1..Len(workers) |->
                      IF /\ isRunning(current_tab)
                         /\ workers[w].op = current_tab
                         /\ workers[w].current
                      THEN [workers[w] EXCEPT !.flag = FALSE]
                      ELSE workers[w]]
    /\ controls' = UpdateControls(FALSE, rows)
    /\ UNCHANGED <<gui_on, gs_installed, current_tab, rows, started>>

\* one step of a worker thread's run(): the per-file loops read _is_running
\* before every file, MergeWorker.run never reads it, AddBookmarkWorker.run
\* reads it after all files were processed, OcrWorker.run before it starts
WorkerAfterStep(r) ==
    IF r.op \in LoopTabs
    THEN IF ~r.flag \/ r.left = 0 THEN EndedWorker(r.op)
         ELSE [r EXCEPT !.left = @ - 1]
    ELSE IF r.op = TAB_OCR
    THEN IF ~r.flag \/ r.left = 0 THEN EndedWorker(r.op)
         ELSE [r EXCEPT !.left = 0]
    ELSE IF r.left = 0 THEN EndedWorker(r.op)
         ELSE [r EXCEPT !.left = 0]

WorkerStep ==
    \E w \in 1..Len(workers) :
        /\ workers[w].st = "running"
        /\ workers' = [workers EXCEPT ![w] = WorkerAfterStep(workers[w])]
        /\ UNCHANGED <<gui_on, gs_installed, current_tab, rows, controls, started>>

\* the queued finished signal of a worker reaches on_optimize_all_finished,
\* ..., on_bookmark_all_finished or the lambda of start_ocr_conversion
on_all_finished ==
    \E w \in 1..Len(workers) :
        /\ workers[w].st = "ended"
        /\ workers' = RemoveAt(workers, w)
        /\ controls' = UpdateControls(FALSE, rows)
        /\ UNCHANGED <<gui_on, gs_installed, current_tab, rows, started>>

GuiStep ==
    \/ SwitchTab
    \/ SelectFiles
    \/ DropFiles
    \/ ClearList
    \/ start_optimization
    \/ start_merge_pdfs
    \/ start_conversion_to_curves
    \/ start_pdf_to_image_conversion
    \/ start_split
    \/ start_add_bookmarks
    \/ start_ocr_conversion
    \/ stop_current_task
    \/ WorkerStep
    \/ on_all_finished

\* the runs in which, once a worker was started, the user only presses Start
\* and Stop buttons: the file lists are filled before the first Start
SetUpFiles ==
    /\ started = 0
    /\ (SwitchTab \/ SelectFiles \/ DropFiles \/ ClearList)

PressStart ==
    \/ start_optimization
    \/ start_merge_pdfs
    \/ start_conversion_to_curves
    \/ start_pdf_to_image_conversion
    \/ start_split
    \/ start_add_bookmarks
    \/ start_ocr_conversion

PressesStep ==
    \/ SetUpFiles
    \/ PressStart
    \/ stop_current_task
    \/ WorkerStep
    \/ on_all_finished

RunningWorkers(op) ==
    {w \in 1..Len(workers) : workers[w].st = "running" /\ workers[w].op = op}

\* C6: for each operation at most one worker thread is executing at any
\* time: no worker of an operation is started while an earlier worker of
\* that operation is still running.
C6_OneWorkerPerOperation ==
    \A op \in Tabs : Cardinality(RunningWorkers(op)) <= 1

\* the runs in which no Stop button is pressed
NoStopStep ==
    \/ SwitchTab
    \/ SelectFiles
    \/ DropFiles
    \/ ClearList
    \/ PressStart
    \/ WorkerStep
    \/ on_all_finished

\* C27: while a worker thread is running and no Stop button was pressed,
\* every Start button is disabled and every Stop button is enabled, whatever
\* the user does with the file lists and the tabs; the Start and the Stop
\* button of a tab are never enabled together.
C27_ControlsFollowRunningWorker ==
    /\ (\E w \in 1..Len(workers) : workers[w].st = "running") =>
          \A t \in Tabs : ~controls.start[t] /\ controls.stop[t]
    /\ \A t \in Tabs : ~(controls.start[t] /\ controls.stop[t])

----------------------------------------------------------------------------
(***************************************************************************)
(* The per-file batch loops and the thread that runs them                  *)
(***************************************************************************)

\* bound
MaxBatch == 3       \* files of a batch

\* the three batch functions are the target of a ProcessingWorker;
\* OptimizeWorker.run is the run() of a QThread of its own
BatchLoops == {"batch_split_pdf", "batch_convert_pdf_to_images",
               "batch_convert_to_curves", "OptimizeWorker.run"}
ViaProcessingWorker == BatchLoops \ {"OptimizeWorker.run"}
\* the loops that hand a page_progress_callback to the core function
WithPageProgress == {"batch_split_pdf", "batch_convert_pdf_to_images"}

\* the core function returns success, returns an error result, or raises
FileOutcomes == {"ok", "fail", "raise"}

\* stop() has not been called
NotStopped == -1

total_files == Len(bt_outcomes)

\* mutation of LoopBreaks: the flag is not read
LoopBreaks_Never(flag) == FALSE

\* "if not worker_signals["is_running"](): break", "if not self._is_running: break"
LoopBreaks(flag) == ~flag

\* int((i + 1) / total_files * 100)
ProgressValue(i, total) == ((i + 1) * 100) \div total

BatchStart ==
    /\ bt_loop \in BatchLoops
    /\ bt_outcomes \in UNION {[1..n -> FileOutcomes] : n \in 0..MaxBatch}
    /\ bt_pc = "start"
    /\ bt_i = 0
    /\ bt_is_running = TRUE
    /\ bt_signals = <<>>
    /\ bt_processed = {}
    /\ bt_stop_iter = NotStopped

BatchIdle ==
    /\ bt_loop = "batch_split_pdf"
    /\ bt_outcomes = <<>>
    /\ bt_pc = "idle"
    /\ bt_i = 0
    /\ bt_is_running = TRUE
    /\ bt_signals = <<>>
    /\ bt_processed = {}
    /\ bt_stop_iter = NotStopped

\* ProcessingWorker.stop / BaseWorker.stop, called from the GUI thread
stop ==
    /\ bt_pc \notin {"idle", "done"}
    /\ bt_is_running
    /\ bt_is_running' = FALSE
    /\ bt_stop_iter' = IF bt_pc \in {"start", "check"} THEN bt_i
                       ELSE IF bt_pc = "exit" THEN total_files
                       ELSE bt_i + 1
    /\ UNCHANGED <<bt_loop, bt_outcomes, bt_pc, bt_i, bt_signals, bt_processed>>

\* the thread begins run(): ProcessingWorker.run returns at once (through its
\* finally) when stop() came first; OptimizeWorker.run enters its loop
RunBegin ==
    /\ bt_pc = "start"
    /\ bt_pc' = IF bt_loop \in ViaProcessingWorker /\ ~bt_is_running
                THEN "exit" ELSE "check"
    /\ UNCHANGED <<bt_loop, bt_outcomes, bt_i, bt_is_running, bt_signals,
                   bt_processed, bt_stop_iter>>

\* "for i, file_path in enumerate(files): if not is_running: break"
LoopHead ==
    /\ bt_pc = "check"
    /\ bt_pc' = IF bt_i >= total_files \/ LoopBreaks(bt_is_running)
                THEN "exit" ELSE "process"
    /\ UNCHANGED <<bt_loop, bt_outcomes, bt_i, bt_is_running, bt_signals,
                   bt_processed, bt_stop_iter>>

\* the call of split_pdf / convert_pdf_to_images /
\* convert_to_curves_with_ghostscript / optimize_pdf on file i; a successful
\* call with a page_progress_callback reports its pages
ProcessFile ==
    /\ bt_pc = "process"
    /\ bt_pc' = "emit"
    /\ bt_processed' = bt_processed \cup {bt_i}
    /\ bt_signals' =
         IF bt_loop \in WithPageProgress /\ bt_outcomes[bt_i + 1] = "ok"
         THEN Append(bt_signals, [sig |-> "page_progress", iter |-> bt_i,
                                  index |-> bt_i, success |-> TRUE, value |-> 1])
         ELSE bt_signals
    /\ UNCHANGED <<bt_loop, bt_outcomes, bt_i, bt_is_running, bt_stop_iter>>

\* mutation of AfterFile: a failed file ends the loop
AfterFile_StopOnFailure(outcome) ==
    IF outcome = "ok" THEN "progress" ELSE "exit"

\* after file_finished the loop body goes on to the progress signal,
\* whatever the file came to: the except branch does not re-raise
AfterFile(outcome) == "progress"

\* file_finished.emit(i, {...}) in the success, the error-result and the
\* except branch
EmitFileFinished ==
    /\ bt_pc = "emit"
    /\ bt_pc' = AfterFile(bt_outcomes[bt_i + 1])
    /\ bt_signals' = Append(bt_signals,
                        [sig |-> "file_finished", iter |-> bt_i, index |-> bt_i,
                         success |-> (bt_outcomes[bt_i + 1] = "ok"), value |-> 0])
    /\ UNCHANGED <<bt_loop, bt_outcomes, bt_i, bt_is_running, bt_processed,
                   bt_stop_iter>>

\* progress.emit(int((i + 1) / total_files * 100)) and the next iteration
EmitProgress ==
    /\ bt_pc = "progress"
    /\ bt_pc' = "check"
    /\ bt_i' = bt_i + 1
    /\ bt_signals' = Append(bt_signals,
                        [sig |-> "progress", iter |-> bt_i, index |-> bt_i,
                         success |-> TRUE,
                         value |-> ProgressValue(bt_i, total_files)])
    /\ UNCHANGED <<bt_loop, bt_outcomes, bt_is_running, bt_processed, bt_stop_iter>>

\* run() returns: "finally: self.finished.emit()" of ProcessingWorker.run,
\* the finished signal of the QThread for OptimizeWorker
RunEnd ==
    /\ bt_pc = "exit"
    /\ bt_pc' = "done"
    /\ bt_signals' = Append(bt_signals,
                        [sig |-> "finished", iter |-> total_files,
                         index |-> total_files, success |-> TRUE, value |-> 0])
    /\ UNCHANGED <<bt_loop, bt_outcomes, bt_i, bt_is_running, bt_processed,
                   bt_stop_iter>>

BatchStep ==
    \/ stop
    \/ RunBegin
    \/ LoopHead
    \/ ProcessFile
    \/ EmitFileFinished
    \/ EmitProgress
    \/ RunEnd

\* C7: the running flag is read before every file: once stop() has set it to
\* false, no file whose iteration starts afterwards is processed, and no
\* file_finished or progress signal is emitted for it.
C7_NoFileAfterStop ==
    bt_stop_iter # NotStopped =>
        \A k \in 0..(total_files - 1) :
            k >= bt_stop_iter =>
                /\ k \notin bt_processed
                /\ \A n \in 1..Len(bt_signals) :
                      bt_signals[n].sig \in {"file_finished", "progress", "page_progress"}
                          => bt_signals[n].iter # k

\* stop() came while an earlier file was in work, files were left over and
\* the thread has ended
C7_Witness ==
    /\ bt_pc = "done"
    /\ bt_stop_iter >= 1
    /\ bt_stop_iter < total_files
    /\ bt_processed = 0..(bt_stop_iter - 1)

\* the indices carried by the file_finished signals, in emission order
FileFinishedIndices ==
    LET ff == SelectSeq(bt_signals, LAMBDA s : s.sig = "file_finished")
    IN  [n \in 1..Len(ff) |-> ff[n].index]

----------------------------------------------------------------------------
(***************************************************************************)
(* The OpenAI-compatible OCR page loop                                     *)
(***************************************************************************)

\* bound
MaxOcrPages == 2    \* pages (images) of the PDF

\* mutation of max_retries: one attempt more
max_retries_Four == 3 + 1

\* max_retries = 3
max_retries == 3

\* OcrWorker.run calls process_images_with_model without check_running, so
\* the default "lambda: True" is used; "check_running" stands for a caller
\* that passes a reader of its flag
OcrCallers == {"OcrWorker", "check_running"}

\* what an API request comes to: a response with non-empty content, a
\* response with empty content, httpx.HTTPStatusError / httpx.RequestError,
\* or any other exception (a body that is no JSON, a response without
\* 'choices': ValueError)
RequestOutcomes == {"content", "empty", "http_error", "malformed"}

\* what page_content holds: nothing, the recognised text, or one of the
\* error placeholders
Placeholders == {"encode_failed", "http_failed", "unknown_error", "all_failed"}

\* check_running()
check_running ==
    IF oc_caller = "check_running" THEN oc_is_running ELSE TRUE

OcrStart ==
    /\ oc_caller \in OcrCallers
    /\ oc_total \in 1..MaxOcrPages
    /\ oc_pc = IF oc_caller = "OcrWorker" THEN "run" ELSE "page"
    /\ oc_i = 0
    /\ oc_attempt = 0
    /\ oc_page_content = ""
    /\ oc_api_success = FALSE
    /\ oc_is_running = TRUE
    /\ oc_requests = <<>>
    /\ oc_results = <<>>
    /\ oc_stop_page = NotStopped

OcrIdle ==
    /\ oc_caller = "OcrWorker"
    /\ oc_total = 1
    /\ oc_pc = "idle"
    /\ oc_i = 0
    /\ oc_attempt = 0
    /\ oc_page_content = ""
    /\ oc_api_success = FALSE
    /\ oc_is_running = TRUE
    /\ oc_requests = <<>>
    /\ oc_results = <<>>
    /\ oc_stop_page = NotStopped

\* OcrWorker.stop, called from the GUI thread
OcrStop ==
    /\ oc_pc \notin {"idle", "returned", "interrupted", "not_run", "failed"}
    /\ oc_is_running
    /\ oc_is_running' = FALSE
    /\ oc_stop_page' = IF oc_pc \in {"run", "convert", "page"} THEN oc_i ELSE oc_i + 1
    /\ UNCHANGED <<oc_caller, oc_total, oc_pc, oc_i, oc_attempt, oc_page_content,
                   oc_api_success, oc_requests, oc_results>>

\* OcrWorker.run: "if not self._is_running: return"
OcrRunBegin ==
    /\ oc_pc = "run"
    /\ oc_pc' = IF oc_is_running THEN "convert" ELSE "not_run"
    /\ UNCHANGED <<oc_caller, oc_total, oc_i, oc_attempt, oc_page_content,
                   oc_api_success, oc_is_running, oc_requests, oc_results,
                   oc_stop_page>>

\* OcrWorker.run: the PDF is converted to page images (or that fails) and
\* process_images_with_model is called
OcrConvert ==
    /\ oc_pc = "convert"
    /\ \E converted \in BOOLEAN : oc_pc' = IF converted THEN "page" ELSE "failed"
    /\ UNCHANGED <<oc_caller, oc_total, oc_i, oc_attempt, oc_page_content,
                   oc_api_success, oc_is_running, oc_requests, oc_results,
                   oc_stop_page>>

\* "for i, image_path in enumerate(image_paths): if not check_running(): raise"
OcrPageHead ==
    /\ oc_pc = "page"
    /\ oc_pc' = IF oc_i >= oc_total THEN "returned"
                ELSE IF ~check_running THEN "interrupted"
                ELSE "encode"
    /\ UNCHANGED <<oc_caller, oc_total, oc_i, oc_attempt, oc_page_content,
                   oc_api_success, oc_is_running, oc_requests, oc_results,
                   oc_stop_page>>

\* encode_image_to_base64: on failure the page gets a placeholder and the
\* loop continues; else the retry loop is set up
OcrEncode ==
    /\ oc_pc = "encode"
    /\ \E encoded \in BOOLEAN :
          IF encoded
          THEN /\ oc_pc' = "attempt"
               /\ oc_attempt' = 0
               /\ oc_page_content' = ""
               /\ oc_api_success' = FALSE
               /\ UNCHANGED <<oc_i, oc_results>>
          ELSE /\ oc_pc' = "page"
               /\ oc_i' = oc_i + 1
               /\ oc_results' = Append(oc_results, "encode_failed")
               /\ UNCHANGED <<oc_attempt, oc_page_content, oc_api_success>>
    /\ UNCHANGED <<oc_caller, oc_total, oc_is_running, oc_requests, oc_stop_page>>

\* "for attempt in range(max_retries): if not check_running(): raise"
OcrAttemptHead ==
    /\ oc_pc = "attempt"
    /\ oc_pc' = IF oc_attempt >= max_retries THEN "page_end"
                ELSE IF ~check_running THEN "interrupted"
                ELSE "request"
    /\ UNCHANGED <<oc_caller, oc_total, oc_i, oc_attempt, oc_page_content,
                   oc_api_success, oc_is_running, oc_requests, oc_results,
                   oc_stop_page>>

\* mutation of AfterOutcome: an HTTP/request error ends the loop as well
AfterOutcome_GiveUpOnError(outcome, attempt) ==
    IF outcome \in {"content", "malformed", "http_error"}
    THEN "page_end" ELSE "attempt"

\* where the retry loop goes after an attempt: break on content and on an
\* unknown exception, else the next iteration (after time.sleep(retry_delay)
\* unless it was the last attempt)
AfterOutcome(outcome, attempt) ==
    IF outcome \in {"content", "malformed"} THEN "page_end" ELSE "attempt"

\* page_content after an attempt
ContentAfter(outcome, attempt) ==
    CASE outcome = "content" -> "content"
      [] outcome = "empty" -> ""
      [] outcome = "http_error" ->
            IF attempt < max_retries - 1 THEN oc_page_content ELSE "http_failed"
      [] outcome = "malformed" -> "unknown_error"

\* client.post(...) and the handling of its response or exception
OcrRequest ==
    /\ oc_pc = "request"
    /\ \E outcome \in RequestOutcomes :
          /\ oc_requests' = Append(oc_requests,
                               [page |-> oc_i, attempt |-> oc_attempt,
                                outcome |-> outcome])
          /\ oc_page_content' = ContentAfter(outcome, oc_attempt)
          /\ oc_api_success' = (outcome = "content")
          /\ oc_pc' = AfterOutcome(outcome, oc_attempt)
          /\ oc_attempt' = IF AfterOutcome(outcome, oc_attempt) = "attempt"
                           THEN oc_attempt + 1 ELSE oc_attempt
    /\ UNCHANGED <<oc_caller, oc_total, oc_i, oc_is_running, oc_results,
                   oc_stop_page>>

\* "if not api_success and not page_content: ..." and
\* full_markdown_content.append(page_content)
OcrPageEnd ==
    /\ oc_pc = "page_end"
    /\ oc_results' = Append(oc_results,
                        IF ~oc_api_success /\ oc_page_content = ""
                        THEN "all_failed" ELSE oc_page_content)
    /\ oc_i' = oc_i + 1
    /\ oc_pc' = "page"
    /\ UNCHANGED <<oc_caller, oc_total, oc_attempt, oc_page_content,
                   oc_api_success, oc_is_running, oc_requests, oc_stop_page>>

OcrStep ==
    \/ OcrStop
    \/ OcrRunBegin
    \/ OcrConvert
    \/ OcrPageHead
    \/ OcrEncode
    \/ OcrAttemptHead
    \/ OcrRequest
    \/ OcrPageEnd

RequestsOf(pg) == {n \in 1..Len(oc_requests) : oc_requests[n].page = pg}

\* C8: in an OCR run started by OcrWorker, once stop() has been called no API
\* request is issued for a page whose iteration begins after that call.
C8_NoRequestAfterStop ==
    (oc_caller = "OcrWorker" /\ oc_stop_page # NotStopped) =>
        \A n \in 1..Len(oc_requests) : oc_requests[n].page < oc_stop_page

\* C9: at most 3 API requests are issued for a page, and none after the
\* first response with non-empty content.
C9_BoundedRequests ==
    \A pg \in 0..(oc_total - 1) :
        /\ Cardinality(RequestsOf(pg)) <= 3
        /\ \A n \in RequestsOf(pg) :
              oc_requests[n].outcome = "content" =>
                  \A m \in RequestsOf(pg) : m <= n

\* one page used up its three attempts, the next page got content on its
\* second attempt, and the run has returned
C9_Witness ==
    /\ oc_pc = "returned"
    /\ oc_total = 2
    /\ Cardinality(RequestsOf(0)) = 3
    /\ Cardinality(RequestsOf(1)) = 2
    /\ oc_requests[Len(oc_requests)].outcome = "content"

\* the request n was followed by another attempt for its page, or that
\* attempt is about to be made, or the task was stopped before it
FollowedUp(n) ==
    \/ \E m \in RequestsOf(oc_requests[n].page) :
          oc_requests[m].attempt = oc_requests[n].attempt + 1
    \/ /\ oc_i = oc_requests[n].page
       /\ oc_attempt = oc_requests[n].attempt + 1
       /\ oc_pc \in {"attempt", "request"}
    \/ /\ oc_i = oc_requests[n].page
       /\ oc_attempt = oc_requests[n].attempt + 1
       /\ oc_pc = "interrupted"
       /\ ~check_running

\* C10 as stated: a page sent to the API gets an error placeholder only
\* after three attempts; every failed attempt (HTTP/request error, empty
\* content, malformed response) below the third is followed by another
\* attempt unless the task was stopped.
C10_GivenUpOnlyAfterThree ==
    /\ \A pg \in 1..Len(oc_results) :
          oc_results[pg] \in Placeholders \ {"encode_failed"}
              => Cardinality(RequestsOf(pg - 1)) = 3
    /\ \A n \in 1..Len(oc_requests) :
          (oc_requests[n].outcome # "content" /\ oc_requests[n].attempt < 2)
              => FollowedUp(n)

\* C10 amended: a malformed response (any exception other than an
\* HTTP/request error) ends the attempts of its page at once with an error
\* placeholder; every other page sent to the API gets an error placeholder
\* only after three attempts, and every attempt below the third that failed
\* with an HTTP/request error or empty content is followed by another
\* attempt unless check_running() reported the stop.  A page whose image
\* could not be encoded is never sent to the API.
C10_GivenUpAfterThreeOrMalformed ==
    /\ \A pg \in 1..Len(oc_results) :
          /\ oc_results[pg] \in {"http_failed", "all_failed"}
                => Cardinality(RequestsOf(pg - 1)) = 3
          /\ oc_results[pg] = "unknown_error"
                => \E n \in RequestsOf(pg - 1) :
                      /\ oc_requests[n].outcome = "malformed"
                      /\ \A m \in RequestsOf(pg - 1) : m <= n
          /\ oc_results[pg] = "encode_failed" => RequestsOf(pg - 1) = {}
    /\ \A n \in 1..Len(oc_requests) :
          (oc_requests[n].outcome \in {"http_error", "empty"}
             /\ oc_requests[n].attempt < 2)
              => FollowedUp(n)
    /\ \A n \in 1..Len(oc_requests) :
          oc_requests[n].outcome = "malformed" =>
              \A m \in RequestsOf(oc_requests[n].page) : m <= n

\* a page was given up after an HTTP error, an empty response and a third
\* failure; the other page was given up at its first, malformed response
C10_Witness ==
    /\ oc_pc = "returned"
    /\ oc_total = 2
    /\ oc_results[1] \in {"http_failed", "all_failed"}
    /\ oc_requests[1].outcome = "http_error"
    /\ oc_requests[2].outcome = "empty"
    /\ oc_results[2] = "unknown_error"
    /\ Cardinality(RequestsOf(1)) = 1

----------------------------------------------------------------------------
(***************************************************************************)
(* The OCR provider dispatch                                               *)
(***************************************************************************)

\* bound
MaxImages == 2      \* len(image_paths)

\* OCR_API_PROVIDER is read from the environment: the two names the dialogs
\* write, and others
Providers == {"Mistral API", "OpenAI-Compatible", "mistral api", "OpenAI", ""}

\* pdf_path: None, the empty string, or a path
PdfPaths == {"<None>", "", "a.pdf"}

\* "not pdf_path"
Falsy(path) == path \in {"<None>", ""}

\* mutation of Backend: the Mistral branch does not look at pdf_path
Backend_NoPdfCheck(provider, pdf_path) ==
    IF provider = "Mistral API" THEN "_process_with_mistral"
    ELSE IF provider = "OpenAI-Compatible" THEN "_process_with_openai_compatible"
    ELSE "ValueError"

\* the if / elif / else over api_provider: the backend called, or the
\* ValueError raised instead
Backend(provider, pdf_path) ==
    IF provider = "Mistral API"
    THEN IF Falsy(pdf_path) THEN "ValueError" ELSE "_process_with_mistral"
    ELSE IF provider = "OpenAI-Compatible" THEN "_process_with_openai_compatible"
    ELSE "ValueError"

DispatchStart ==
    /\ dp_provider \in Providers
    /\ dp_pdf_path \in PdfPaths
    /\ dp_images \in 0..MaxImages
    /\ dp_pc = "call"
    /\ dp_invoked = <<>>
    /\ dp_result = "none"

DispatchIdle ==
    /\ dp_provider = ""
    /\ dp_pdf_path = "<None>"
    /\ dp_images = 0
    /\ dp_pc = "idle"
    /\ dp_invoked = <<>>
    /\ dp_result = "none"

\* process_images_with_model up to the call of a backend or the raise
Dispatch ==
    /\ dp_pc = "call"
    /\ LET b == Backend(dp_provider, dp_pdf_path)
       IN  IF b = "ValueError"
           THEN /\ dp_pc' = "raised"
                /\ UNCHANGED dp_invoked
           ELSE /\ dp_pc' = "backend"
                /\ dp_invoked' = Append(dp_invoked, b)
    /\ UNCHANGED <<dp_provider, dp_pdf_path, dp_images, dp_result>>

\* the backend returns the markdown or raises (InterruptedError, an API error)
BackendRuns ==
    /\ dp_pc = "backend"
    /\ \E outcome \in {"returned", "raised"} : dp_pc' = outcome
    /\ UNCHANGED <<dp_provider, dp_pdf_path, dp_images, dp_invoked, dp_result>>

\* "return {"success": True, ...}", or the wrapper of @handle_exception
\* turning the exception into {"success": False, ...}
DispatchReturn ==
    /\ dp_pc \in {"returned", "raised"}
    /\ dp_result' = (dp_pc = "returned")
    /\ dp_pc' = "done"
    /\ UNCHANGED <<dp_provider, dp_pdf_path, dp_images, dp_invoked>>

DispatchStep ==
    \/ Dispatch
    \/ BackendRuns
    \/ DispatchReturn

\* C12: a finished call has invoked the Mistral backend once and nothing
\* else when api_provider is 'Mistral API' and pdf_path is given; no backend,
\* with success False, when it is 'Mistral API' without pdf_path; the
\* OpenAI-compatible backend once and nothing else when it is
\* 'OpenAI-Compatible'; no backend, with success False, for any other
\* provider.  At no time has a call invoked more than one backend.
C12_OneBackendPerCall ==
    /\ Len(dp_invoked) <= 1
    /\ dp_pc = "done" =>
          IF dp_provider = "Mistral API"
          THEN IF Falsy(dp_pdf_path)
               THEN dp_invoked = <<>> /\ dp_result = FALSE
               ELSE dp_invoked = <<"_process_with_mistral">>
          ELSE IF dp_provider = "OpenAI-Compatible"
          THEN dp_invoked = <<"_process_with_openai_compatible">>
          ELSE dp_invoked = <<>> /\ dp_result = FALSE

\* a call for Mistral without a pdf_path has returned
C12_Witness ==
    /\ dp_pc = "done"
    /\ dp_provider = "Mistral API"
    /\ dp_pdf_path = ""
    /\ dp_result = FALSE

----------------------------------------------------------------------------
(***************************************************************************)
(* ProcessingWorker.run                                                    *)
(***************************************************************************)

\* bound
MaxTargetSignals == 3   \* signals the target function emits through worker_signals

\* the target functions are the core functions of this repository: one
\* returns, or raises an Exception (a TypeError for worker_signals, an error
\* of the PDF library) that run() sees
TargetEnds == {"return", "raise"}

\* mutation of AfterTarget: the except clause is missing
AfterTarget_NoExcept(ends) == "finally"

\* where run() goes when the target function has ended: "except Exception"
\* or straight to "finally"
AfterTarget(ends) == IF ends = "raise" THEN "except" ELSE "finally"

WorkerStart ==
    /\ pw_target \in [emits : 0..MaxTargetSignals, ends : TargetEnds]
    /\ pw_pc = "start"
    /\ pw_is_running = TRUE
    /\ pw_invoked = FALSE
    /\ pw_signals = <<>>
    /\ pw_stopped = "no"

WorkerIdle ==
    /\ pw_target = [emits |-> 0, ends |-> "return"]
    /\ pw_pc = "idle"
    /\ pw_is_running = TRUE
    /\ pw_invoked = FALSE
    /\ pw_signals = <<>>
    /\ pw_stopped = "no"

\* ProcessingWorker.stop, called from the GUI thread
WorkerStop ==
    /\ pw_pc \notin {"idle", "done"}
    /\ pw_is_running
    /\ pw_is_running' = FALSE
    /\ pw_stopped' = pw_pc
    /\ UNCHANGED <<pw_target, pw_pc, pw_invoked, pw_signals>>

\* "if not self._is_running: return", else worker_signals is set and the
\* target function is called
WorkerRunBegin ==
    /\ pw_pc = "start"
    /\ IF pw_is_running
       THEN pw_pc' = "target" /\ pw_invoked' = TRUE
       ELSE pw_pc' = "finally" /\ UNCHANGED pw_invoked
    /\ UNCHANGED <<pw_target, pw_is_running, pw_signals, pw_stopped>>

\* the target function emits one of the signals it was handed
TargetSignal ==
    /\ pw_pc = "target"
    /\ Len(pw_signals) < pw_target.emits
    /\ pw_signals' = Append(pw_signals, "progress")
    /\ UNCHANGED <<pw_target, pw_pc, pw_is_running, pw_invoked, pw_stopped>>

\* the target function returns or raises; a stopped target may end before
\* it has emitted all its signals
TargetEnd ==
    /\ pw_pc = "target"
    /\ Len(pw_signals) = pw_target.emits \/ ~pw_is_running
    /\ pw_pc' = AfterTarget(pw_target.ends)
    /\ UNCHANGED <<pw_target, pw_is_running, pw_invoked, pw_signals, pw_stopped>>

\* "except Exception as e: ... self.error.emit(str(e))"
WorkerExcept ==
    /\ pw_pc = "except"
    /\ pw_signals' = Append(pw_signals, "error")
    /\ pw_pc' = "finally"
    /\ UNCHANGED <<pw_target, pw_is_running, pw_invoked, pw_stopped>>

\* "finally: self.finished.emit()"
WorkerFinally ==
    /\ pw_pc = "finally"
    /\ pw_signals' = Append(pw_signals, "finished")
    /\ pw_pc' = "done"
    /\ UNCHANGED <<pw_target, pw_is_running, pw_invoked, pw_stopped>>

WorkerRunStep ==
    \/ WorkerStop
    \/ WorkerRunBegin
    \/ TargetSignal
    \/ TargetEnd
    \/ WorkerExcept
    \/ WorkerFinally

Emitted(sig) == {n \in 1..Len(pw_signals) : pw_signals[n] = sig}

----------------------------------------------------------------------------
(***************************************************************************)
(* ConfigManager: the config file, its backups, the legacy .env            *)
(***************************************************************************)

\* bounds
MaxSaves == 12          \* save_configs calls of a run of saves
MaxPlainSaves == 1      \* of them with create_backup=False

\* "if len(backups) > 10: for old_backup in backups[:-10]"
BackupsKept == 10

\* seconds that pass between two calls
Elapsed == {0, 1}

EmptyProfile == [configs |-> <<>>, active |-> None, default |-> None]

\* what a path of the directory holds: nothing, bytes that are no JSON
\* document of a profile, or such a document
Missing == [kind |-> "missing"]
Corrupt == [kind |-> "corrupt"]
Json(doc) == [kind |-> "json", doc |-> doc]

\* ConfigProfile.to_dict, with now the value of datetime.now()
to_dict(profile, now) ==
    [version |-> "1.0",
     profiles |-> [configs |-> profile.configs,
                   active_config_id |-> profile.active,
                   default_config_id |-> profile.default],
     metadata |-> [last_modified |-> now,
                   config_count |-> Len(profile.configs)]]

\* ConfigProfile.from_dict
from_dict(doc) ==
    [configs |-> doc.profiles.configs,
     active |-> doc.profiles.active_config_id,
     default |-> doc.profiles.default_config_id]

\* datetime.now().strftime("%Y%m%d_%H%M%S"): the time to the second
strftime(now) == now.sec

\* the clock after a read of datetime.now()
AfterNow(now) == [now EXCEPT !.usec = @ + 1]

\* the clock after some seconds
AfterSeconds(now, elapsed) ==
    IF elapsed = 0 THEN now ELSE [sec |-> now.sec + elapsed, usec |-> 0]

\* backups[-10:] of the name-sorted list of the backups
Newest(backups) ==
    LET names == DOMAIN backups
        kept == {n \in names : Cardinality({m \in names : m > n}) < BackupsKept}
    IN  [n \in kept |-> backups[n]]

\* ConfigManager._create_backup: shutil.copy2 to the name of this second,
\* then the old backups are unlinked
create_backup(disk) ==
    LET name == strftime(disk.now)
        copied == [n \in DOMAIN disk.backups \cup {name} |->
                      IF n = name THEN disk.file ELSE disk.backups[n]]
    IN  [disk EXCEPT !.backups = IF Cardinality(DOMAIN copied) > BackupsKept
                                 THEN Newest(copied) ELSE copied,
                     !.now = AfterNow(@),
                     !.copies = Append(@, [name |-> name, content |-> disk.file])]

\* ConfigManager.save_configs(profile, create_backup)
save_configs(disk, profile, backup) ==
    LET d1 == IF backup /\ disk.file # Missing THEN create_backup(disk) ELSE disk
    IN  [ret |-> TRUE,
         disk |-> [d1 EXCEPT !.file = Json(to_dict(profile, d1.now)),
                             !.now = AfterNow(@)]]

\* the profile a parsable config file holds
Stored(disk) == from_dict(disk.file.doc)

OneConfig == [configs |-> <<[id |-> 1, name |-> "a", is_default |-> TRUE]>>,
              active |-> 1, default |-> 1]

\* a config directory with a config file or none, and no backup yet
BackupsStart ==
    /\ cm_disk \in {[file |-> f, backups |-> <<>>, env |-> Missing,
                     env_migrated |-> FALSE, xfile |-> Missing,
                     now |-> [sec |-> 1, usec |-> 0], next_uuid |-> 2,
                     copies |-> <<>>] :
                    f \in {Missing, Corrupt,
                           Json(to_dict(OneConfig, [sec |-> 0, usec |-> 0]))}}
    /\ cm_log = <<>>

ManagerIdle ==
    /\ cm_disk = [file |-> Missing, backups |-> <<>>, env |-> Missing,
                  env_migrated |-> FALSE, xfile |-> Missing,
                  now |-> [sec |-> 0, usec |-> 0], next_uuid |-> 1,
                  copies |-> <<>>]
    /\ cm_log = <<>>

PlainSaves == {n \in 1..Len(cm_log) : cm_log[n].op = "save_configs" /\ ~cm_log[n].backup}

\* a handler of the dialog saves the profile: save_configs(profile) some
\* seconds, or less than a second, after the call before
Save(profile, backup) ==
    /\ Len(cm_log) < MaxSaves
    /\ ~backup => Cardinality(PlainSaves) < MaxPlainSaves
    /\ \E elapsed \in Elapsed :
          LET d0 == [cm_disk EXCEPT !.now = AfterSeconds(@, elapsed)]
              r == save_configs(d0, profile, backup)
          IN  /\ cm_disk' = r.disk
              /\ cm_log' = Append(cm_log,
                              [op |-> "save_configs", backup |-> backup,
                               ret |-> r.ret, file_before |-> cm_disk.file])

SaveWithBackup == Save(OneConfig, TRUE)
SaveWithoutBackup == Save(OneConfig, FALSE)

BackupsStep ==
    \/ SaveWithBackup
    \/ SaveWithoutBackup

Min(a, b) == IF a < b THEN a ELSE b

\* the backups the directory holds, as name and content
Held == {[name |-> n, content |-> cm_disk.backups[n]] : n \in DOMAIN cm_disk.backups}

\* the copies made by the last k calls of _create_backup
LastCopies(k) ==
    {cm_disk.copies[n] : n \in (Len(cm_disk.copies) - k + 1)..Len(cm_disk.copies)}

\* C14: after a save_configs with create_backup on an existing config file a
\* backup holds the content the file had before the save; the backup
\* directory holds at most 10 backups, and they are the ones made by the
\* most recent calls: all of them while no more than 10 were made, the last
\* 10 afterwards.
C14_BackupsKeepTheLastTen ==
    /\ (cm_log # <<>> /\ cm_log[Len(cm_log)].op = "save_configs"
          /\ cm_log[Len(cm_log)].backup
          /\ cm_log[Len(cm_log)].file_before # Missing)
         => \E n \in DOMAIN cm_disk.backups :
               cm_disk.backups[n] = cm_log[Len(cm_log)].file_before
    /\ Cardinality(DOMAIN cm_disk.backups) <= 10
    /\ Held = LastCopies(Min(10, Len(cm_disk.copies)))
    /\ Cardinality(Held) = Min(10, Len(cm_disk.copies))

\* bound
MaxOps == 2             \* calls of load / export / import in a run

\* the pure form of ConfigProfile.add_config: the result and the profile
add_config_to(profile, cfg) ==
    IF NameTaken(profile.configs, cfg.name)
    THEN [ret |-> FALSE, profile |-> profile]
    ELSE LET cleared == IF cfg.is_default THEN ClearFlags(profile.configs)
                        ELSE profile.configs
             first == (profile.configs = <<>>)
         IN  [ret |-> TRUE,
              profile |->
                [configs |-> Append(cleared,
                                [cfg EXCEPT !.is_default = cfg.is_default \/ first]),
                 active |-> IF first THEN cfg.id ELSE profile.active,
                 default |-> IF cfg.is_default \/ first THEN cfg.id
                             ELSE profile.default]]

NewestName(backups) == CHOOSE n \in DOMAIN backups : \A m \in DOMAIN backups : m <= n

\* mutation of LatestBackup: the oldest backup is read
LatestBackup_Oldest(backups) ==
    backups[CHOOSE n \in DOMAIN backups : \A m \in DOMAIN backups : m >= n]

\* "latest_backup = backups[-1]" of the name-sorted list
LatestBackup(backups) == backups[NewestName(backups)]

\* ConfigManager._restore_from_backup
restore_from_backup(disk) ==
    IF DOMAIN disk.backups = {} THEN EmptyProfile
    ELSE IF LatestBackup(disk.backups).kind = "json"
         THEN from_dict(LatestBackup(disk.backups).doc)
         ELSE EmptyProfile

\* the legacy .env: the values os.getenv sees after load_dotenv
Env(provider, openai_key, mistral_key, temperature) ==
    [kind |-> "env", OCR_API_PROVIDER |-> provider, OPENAI_API_KEY |-> openai_key,
     MISTRAL_API_KEY |-> mistral_key, OCR_TEMPERATURE |-> temperature]

\* the key the migration reads: MISTRAL_API_KEY for "Mistral API", else
\* OPENAI_API_KEY
ApiKeyOf(env) ==
    IF env.OCR_API_PROVIDER = "Mistral API" THEN env.MISTRAL_API_KEY
    ELSE env.OPENAI_API_KEY

\* float(os.getenv("OCR_TEMPERATURE", "1.0")) returns, or raises ValueError
FloatParses(text) == text \in {"<unset>", "0.5", "1.0"}

\* name=f"迁移的{provider}配置": the name of the config the migration makes,
\* which embeds the provider
MigratedName(provider) ==
    IF provider = "Mistral API" THEN "migrated Mistral API" ELSE "migrated OpenAI-Compatible"

\* mutation of RenamesEnv: .env is left in place
RenamesEnv_Never(disk) == FALSE

\* "if not migrated_env.exists(): self.env_file.rename(migrated_env)"
RenamesEnv(disk) == ~disk.env_migrated

\* ConfigManager._migrate_from_old_config
migrate_from_old_config(disk) ==
    IF disk.env = Missing \/ ~FloatParses(disk.env.OCR_TEMPERATURE)
    THEN [ret |-> EmptyProfile, disk |-> disk]
    ELSE IF ApiKeyOf(disk.env) = ""
    THEN [ret |-> EmptyProfile, disk |-> disk]
    ELSE LET cfg == [id |-> disk.next_uuid,
                     name |-> MigratedName(disk.env.OCR_API_PROVIDER),
                     is_default |-> TRUE]
             profile == add_config_to(EmptyProfile, cfg).profile
             saved == save_configs([disk EXCEPT !.next_uuid = @ + 1], profile, TRUE).disk
         IN  [ret |-> profile,
              disk |-> IF RenamesEnv(saved)
                       THEN [saved EXCEPT !.env = Missing, !.env_migrated = TRUE]
                       ELSE saved]

\* ConfigManager.load_configs
load_configs(disk) ==
    IF disk.file = Missing THEN migrate_from_old_config(disk)
    ELSE IF disk.file.kind = "json"
         THEN [ret |-> from_dict(disk.file.doc), disk |-> disk]
         ELSE [ret |-> restore_from_backup(disk), disk |-> disk]

\* "for config_id in config_ids: config = profile.get_config(config_id) ..."
RECURSIVE Selected(_, _)
Selected(cs, config_ids) ==
    IF config_ids = <<>> THEN <<>>
    ELSE LET k == IndexOfId(cs, Head(config_ids))
         IN  (IF k = 0 THEN <<>> ELSE <<cs[k]>>) \o Selected(cs, Tail(config_ids))

\* mutation of Exported: the references are dropped in every export
Exported_NoReferences(profile, config_ids) ==
    [configs |-> IF config_ids # <<>> THEN Selected(profile.configs, config_ids)
                 ELSE profile.configs,
     active |-> None, default |-> None]

\* the profile an export writes: a new ConfigProfile with the selected
\* configs, or the loaded profile when no ids are given
Exported(profile, config_ids) ==
    IF config_ids # <<>>
    THEN [configs |-> Selected(profile.configs, config_ids),
          active |-> None, default |-> None]
    ELSE profile

\* ConfigManager.export_configs(file_path, config_ids)
export_configs(disk, config_ids) ==
    LET loaded == load_configs(disk)
        exported == Exported(loaded.ret, config_ids)
    IN  [ret |-> TRUE,
         disk |-> [loaded.disk EXCEPT
                      !.xfile = Json(to_dict(exported, loaded.disk.now)),
                      !.now = AfterNow(@)]]

\* mutation of Duplicate: the name is not looked up
Duplicate_Never(profile, cfg) == FALSE

\* "any(c.name == config.name for c in current_profile.configs)"
Duplicate(profile, cfg) == NameTaken(profile.configs, cfg.name)

\* the loop of the merge mode over imported_profile.configs from index k:
\* the profile, the uuid source and the configs appended to imported_configs
RECURSIVE MergeInto(_, _, _)
MergeInto(acc, cfgs, k) ==
    IF k > Len(cfgs) THEN acc
    ELSE IF Duplicate(acc.profile, cfgs[k]) THEN MergeInto(acc, cfgs, k + 1)
    ELSE MergeInto(
            [profile |-> add_config_to(acc.profile,
                                       [cfgs[k] EXCEPT !.id = acc.uuid]).profile,
             uuid |-> acc.uuid + 1,
             added |-> Append(acc.added, [cfgs[k] EXCEPT !.id = acc.uuid])],
            cfgs, k + 1)

\* imported_configs as the caller sees it: a config that add_config put into
\* the profile is the very object of the profile, flags as they are now
Returned(cs, added) ==
    [n \in 1..Len(added) |->
        IF get_config(cs, added[n].id) THEN cs[IndexOfId(cs, added[n].id)]
        ELSE added[n]]

\* ConfigManager.import_configs(file_path, merge)
import_configs(disk, merge) ==
    IF disk.xfile.kind # "json"
    THEN [ret |-> <<>>, disk |-> disk]
    ELSE LET imported == from_dict(disk.xfile.doc)
             loaded == load_configs(disk)
             merged == MergeInto([profile |-> loaded.ret,
                                  uuid |-> loaded.disk.next_uuid, added |-> <<>>],
                                 imported.configs, 1)
         IN  IF merge
             THEN [ret |-> Returned(merged.profile.configs, merged.added),
                   disk |-> save_configs([loaded.disk EXCEPT !.next_uuid = merged.uuid],
                                         merged.profile, TRUE).disk]
             ELSE [ret |-> imported.configs,
                   disk |-> save_configs(loaded.disk, imported, TRUE).disk]

\* profiles of files that were written earlier
TwoConfigs == [configs |-> <<[id |-> 1, name |-> "a", is_default |-> FALSE],
                             [id |-> 2, name |-> "b", is_default |-> TRUE]>>,
               active |-> 1, default |-> 2]
SameNames == [configs |-> <<[id |-> 1, name |-> "c", is_default |-> FALSE],
                            [id |-> 3, name |-> "c", is_default |-> TRUE],
                            [id |-> 4, name |-> "a", is_default |-> FALSE]>>,
              active |-> 3, default |-> 3]

Epoch == [sec |-> 0, usec |-> 0]

\* the legacy .env files
EnvFiles == {Missing,
             Env("OpenAI-Compatible", "k", "", "<unset>"),
             Env("OpenAI-Compatible", "", "k", "<unset>"),
             Env("Mistral API", "", "k", "0.5"),
             Env("OpenAI-Compatible", "k", "", "hot"),
             Env("OpenAI-Compatible", "", "", "<unset>")}

\* the backup directories: up to two backups, of the seconds 1 and 2
BackupDirs ==
    UNION {[names -> {Corrupt, Json(to_dict(OneConfig, Epoch)),
                      Json(to_dict(TwoConfigs, Epoch))}] :
           names \in SUBSET {1, 2}}

\* a config directory as an earlier run, an older version or the user left it
ManagerStart ==
    /\ cm_disk \in
         {[file |-> f, backups |-> b, env |-> e, env_migrated |-> m, xfile |-> x,
           now |-> [sec |-> 3, usec |-> 0], next_uuid |-> 7, copies |-> <<>>] :
          f \in {Missing, Corrupt, Json(to_dict(OneConfig, Epoch))},
          b \in BackupDirs,
          e \in EnvFiles,
          m \in BOOLEAN,
          x \in {Missing, Corrupt, Json(to_dict(TwoConfigs, Epoch)),
                 Json(to_dict(SameNames, Epoch))}}
    /\ cm_disk.file = Corrupt \/ cm_disk.backups = <<>>
    /\ cm_disk.file = Missing \/ cm_disk.env = Missing
    /\ cm_log = <<>>

\* the disk some seconds, or less than a second, after the call before
Later(elapsed) == [cm_disk EXCEPT !.now = AfterSeconds(@, elapsed)]

Load ==
    /\ Len(cm_log) < MaxOps
    /\ \E elapsed \in Elapsed :
          LET r == load_configs(Later(elapsed))
          IN  /\ cm_disk' = r.disk
              /\ cm_log' = Append(cm_log, [op |-> "load_configs", ret |-> r.ret,
                                           before |-> cm_disk])

Export ==
    /\ Len(cm_log) < MaxOps
    /\ \E elapsed \in Elapsed, config_ids \in {<<>>, <<1>>, <<2, 9>>} :
          LET r == export_configs(Later(elapsed), config_ids)
          IN  /\ cm_disk' = r.disk
              /\ cm_log' = Append(cm_log, [op |-> "export_configs", ret |-> r.ret,
                                           config_ids |-> config_ids,
                                           before |-> cm_disk])

Import ==
    /\ Len(cm_log) < MaxOps
    /\ \E elapsed \in Elapsed, merge \in BOOLEAN :
          LET r == import_configs(Later(elapsed), merge)
          IN  /\ cm_disk' = r.disk
              /\ cm_log' = Append(cm_log, [op |-> "import_configs", ret |-> r.ret,
                                           merge |-> merge, before |-> cm_disk])

ManagerStep ==
    \/ Load
    \/ Export
    \/ Import

\* the last call and the disk it found
LastCall == cm_log[Len(cm_log)]
LastIs(op) == cm_log # <<>> /\ LastCall.op = op

\* the config file holds this profile
FileHolds(disk, profile) ==
    disk.file.kind = "json" /\ from_dict(disk.file.doc) = profile

\* C15: load_configs returns a profile in every case: for a missing config
\* file the result of the .env migration, for an unparsable file the profile
\* of the most recent backup, and the empty profile when there is no backup
\* or the most recent one is unparsable; the load leaves the config file and
\* the backups as they were, but for the save of a migration that succeeded.
C15_LoadFallsBack ==
    LastIs("load_configs") =>
        LET b == LastCall.before
            newest == b.backups[NewestName(b.backups)]
        IN  /\ b.file = Missing => LastCall.ret = migrate_from_old_config(b).ret
            /\ (b.file = Corrupt /\ DOMAIN b.backups # {} /\ newest.kind = "json")
                  => LastCall.ret = from_dict(newest.doc)
            /\ (b.file = Corrupt /\ DOMAIN b.backups = {})
                  => LastCall.ret = EmptyProfile
            /\ (b.file = Corrupt /\ DOMAIN b.backups # {} /\ newest.kind # "json")
                  => LastCall.ret = EmptyProfile
            /\ cm_disk.backups = b.backups
            /\ \/ cm_disk.file = b.file
               \/ /\ b.file = Missing
                  /\ LastCall.ret.configs # <<>>
                  /\ FileHolds(cm_disk, LastCall.ret)

\* the config file was unparsable, the older backup differs from the most
\* recent one, and the load returned the profile of the most recent one
C15_Witness ==
    /\ LastIs("load_configs")
    /\ LastCall.before.file = Corrupt
    /\ DOMAIN LastCall.before.backups = {1, 2}
    /\ LastCall.before.backups[1] = Json(to_dict(OneConfig, Epoch))
    /\ LastCall.ret = TwoConfigs

\* the first call was a load that found no config file but a .env with an
\* API key for its provider
MigratingLoad ==
    /\ cm_log # <<>>
    /\ cm_log[1].op = "load_configs"
    /\ cm_log[1].before.file = Missing
    /\ cm_log[1].before.env # Missing
    /\ ApiKeyOf(cm_log[1].before.env) # ""

\* the profile has exactly one config, which is active and default
OneActiveDefault(profile) ==
    /\ Len(profile.configs) = 1
    /\ profile.configs[1].is_default
    /\ profile.active = profile.configs[1].id
    /\ profile.default = profile.configs[1].id

\* a load after the migrating load read the saved file and changed nothing
SecondLoadReads ==
    (Len(cm_log) = 2 /\ cm_log[2].op = "load_configs") =>
        /\ cm_log[2].ret = cm_log[1].ret
        /\ cm_disk.file = cm_log[2].before.file
        /\ cm_disk.env = cm_log[2].before.env

\* a load that found no config file and a .env without API key returned the
\* empty profile and saved and renamed nothing
NoKeyNoMigration ==
    (LastIs("load_configs") /\ LastCall.before.file = Missing
       /\ LastCall.before.env # Missing /\ ApiKeyOf(LastCall.before.env) = "")
        => /\ LastCall.ret = EmptyProfile
           /\ cm_disk.file = Missing
           /\ cm_disk.env = LastCall.before.env
           /\ cm_disk.env_migrated = LastCall.before.env_migrated

\* C16 as stated: with no config file and a non-empty API key in .env the
\* load returns one config, active and default, saves it as the config file
\* and renames .env to .env.migrated, and a second load reads that file; with
\* an empty key it returns the empty profile and saves and renames nothing.
C16_MigratesOnce ==
    /\ MigratingLoad =>
          /\ OneActiveDefault(cm_log[1].ret)
          /\ Len(cm_log) = 1 =>
                /\ FileHolds(cm_disk, cm_log[1].ret)
                /\ cm_disk.env = Missing
                /\ cm_disk.env_migrated
          /\ SecondLoadReads
    /\ NoKeyNoMigration

\* C16 amended: the migration takes place when the values of .env can be
\* read, OCR_TEMPERATURE being a number; .env is renamed unless .env.migrated
\* exists already.  With an OCR_TEMPERATURE that is no number the load
\* returns the empty profile and saves and renames nothing.
C16_MigratesOnceIfReadable ==
    /\ (MigratingLoad /\ FloatParses(cm_log[1].before.env.OCR_TEMPERATURE)) =>
          /\ OneActiveDefault(cm_log[1].ret)
          /\ Len(cm_log) = 1 =>
                /\ FileHolds(cm_disk, cm_log[1].ret)
                /\ cm_disk.env_migrated
                /\ ~cm_log[1].before.env_migrated => cm_disk.env = Missing
                /\ cm_log[1].before.env_migrated => cm_disk.env = cm_log[1].before.env
          /\ SecondLoadReads
    /\ (MigratingLoad /\ ~FloatParses(cm_log[1].before.env.OCR_TEMPERATURE)) =>
          /\ cm_log[1].ret = EmptyProfile
          /\ Len(cm_log) = 1 => (cm_disk.file = Missing
                                   /\ cm_disk.env = cm_log[1].before.env)
    /\ NoKeyNoMigration

\* a .env with a Mistral key was migrated and renamed, and a second load
\* read the saved file
C16_Witness ==
    /\ MigratingLoad
    /\ cm_log[1].before.env.OCR_API_PROVIDER = "Mistral API"
    /\ ~cm_log[1].before.env_migrated
    /\ Len(cm_log) = 2
    /\ cm_log[2].op = "load_configs"
    /\ OneActiveDefault(cm_log[2].ret)
    /\ cm_disk.env = Missing

\* the indices of the imported configs the merge has to add: the name is
\* not in the current profile and not the name of an earlier imported config
ToAdd(current, imported) ==
    {k \in 1..Len(imported.configs) :
        /\ ~NameTaken(current.configs, imported.configs[k].name)
        /\ \A j \in 1..(k - 1) : imported.configs[j].name # imported.configs[k].name}

\* the names of these configs of the list, in the order of the list
NamesAt(cs, indices) ==
    LET picked == SelectSeq([k \in 1..Len(cs) |-> [k |-> k, name |-> cs[k].name]],
                            LAMBDA r : r.k \in indices)
    IN  [n \in 1..Len(picked) |-> picked[n].name]

\* C17: a merge import appends to the current profile the imported configs
\* whose name is neither in the profile nor the name of a config added
\* earlier in the import, each under a fresh id, returns the appended
\* configs and saves the profile; with an unreadable import file it returns
\* the empty list and leaves the stored profile as it was.
C17_MergeAddsNewNames ==
    (LastIs("import_configs") /\ LastCall.merge) =>
        LET b == LastCall.before
        IN  IF b.xfile.kind # "json"
            THEN LastCall.ret = <<>> /\ cm_disk.file = b.file
            ELSE LET current == load_configs(b).ret
                     imported == from_dict(b.xfile.doc)
                     expected == NamesAt(imported.configs, ToAdd(current, imported))
                     stored == from_dict(cm_disk.file.doc).configs
                     old == Len(current.configs)
                 IN  /\ cm_disk.file.kind = "json"
                     /\ Len(stored) = old + Len(expected)
                     /\ \A k \in 1..old :
                           /\ stored[k].id = current.configs[k].id
                           /\ stored[k].name = current.configs[k].name
                     /\ \A n \in 1..Len(expected) :
                           /\ stored[old + n].name = expected[n]
                           /\ stored[old + n].id >= b.next_uuid
                           /\ \A k \in 1..(old + n - 1) : stored[k].id # stored[old + n].id
                     /\ LastCall.ret = SubSeq(stored, old + 1, Len(stored))

\* the import file held two configs of one name that is new and one config
\* whose name was taken: one config was added
C17_Witness ==
    /\ LastIs("import_configs")
    /\ LastCall.merge
    /\ LastCall.before.file = Json(to_dict(OneConfig, Epoch))
    /\ LastCall.before.xfile = Json(to_dict(SameNames, Epoch))
    /\ Len(LastCall.ret) = 1
    /\ LastCall.ret[1].name = "c"
    /\ Len(from_dict(cm_disk.file.doc).configs) = 2

\* an export of all configs was followed by a replace import of its file
ExportThenReplace ==
    /\ Len(cm_log) = 2
    /\ cm_log[1].op = "export_configs"
    /\ cm_log[1].config_ids = <<>>
    /\ cm_log[2].op = "import_configs"
    /\ ~cm_log[2].merge

\* C18 as stated: export of all configs followed by a replace import of the
\* file leaves the stored profile as it was before the export; an export
\* does not change the config file.
C18_ExportImportRoundTrip ==
    /\ (ExportThenReplace /\ cm_log[1].before.file.kind = "json") =>
          FileHolds(cm_disk, from_dict(cm_log[1].before.file.doc))
    /\ LastIs("export_configs") => cm_disk.file = LastCall.before.file

\* C18 amended: an export does not change the config file, except that an
\* export that finds no config file performs the pending .env migration and
\* its save.
C18_RoundTripButMigration ==
    /\ (ExportThenReplace /\ cm_log[1].before.file.kind = "json") =>
          FileHolds(cm_disk, from_dict(cm_log[1].before.file.doc))
    /\ LastIs("export_configs") =>
          \/ cm_disk.file = LastCall.before.file
          \/ /\ LastCall.before.file = Missing
             /\ FileHolds(cm_disk, migrate_from_old_config(LastCall.before).ret)

\* a stored profile with a config went through export and replace import
C18_Witness ==
    /\ ExportThenReplace
    /\ cm_log[1].before.file = Json(to_dict(OneConfig, Epoch))
    /\ cm_log[2].ret = OneConfig.configs
    /\ FileHolds(cm_disk, OneConfig)
    /\ cm_disk.file # cm_log[1].before.file

\* C26: a merge import into a stored profile that has configs stores every
\* config the profile had as it was, is_default included, at its place, and leaves
\* default_config_id and active_config_id as they were.
C26_MergeKeepsExisting ==
    (LastIs("import_configs") /\ LastCall.merge
        /\ LastCall.before.xfile.kind = "json"
        /\ LastCall.before.file.kind = "json"
        /\ Stored(LastCall.before).configs # <<>>) =>
        LET current == Stored(LastCall.before)
            stored == from_dict(cm_disk.file.doc)
        IN  /\ cm_disk.file.kind = "json"
            /\ Len(stored.configs) >= Len(current.configs)
            /\ SubSeq(stored.configs, 1, Len(current.configs)) = current.configs
            /\ stored.default = current.default
            /\ stored.active = current.active

----------------------------------------------------------------------------
(***************************************************************************)
(* ConfigManagerDialog._save_config                                        *)
(***************************************************************************)

\* bound
MaxDialogSaves == 2     \* presses of the save button in a run

\* the pure form of ConfigProfile.update_config: the result and the profile
update_config_in(profile, config_id, cfg) ==
    IF ~get_config(profile.configs, config_id)
    THEN [ret |-> FALSE, profile |-> profile]
    ELSE LET cleared == IF cfg.is_default THEN ClearFlags(profile.configs)
                        ELSE profile.configs
         IN  [ret |-> TRUE,
              profile |->
                [configs |-> [cleared EXCEPT ![IndexOfId(profile.configs, config_id)] =
                                                [cfg EXCEPT !.id = config_id]],
                 active |-> profile.active,
                 default |-> IF cfg.is_default THEN config_id ELSE profile.default]]

\* the pure form of ConfigProfile.clear_default
clear_default_of(profile) ==
    [configs |-> ClearFlags(profile.configs), active |-> profile.active,
     default |-> None]

\* "if self.is_default_check.isChecked(): profile.clear_default()"
BeforeAdd(profile, checked) ==
    IF checked THEN clear_default_of(profile) ELSE profile

\* "if self.config_manager.save_configs(profile): ... information(...) else:
\* ... critical(...)", with "saved" for the message "配置保存成功" and
\* "save failed" for "配置保存失败": the results of update_config and
\* add_config are not looked at
Reports(applied, saved) ==
    IF saved THEN "saved" ELSE "save failed"

\* ConfigManagerDialog._save_config from "profile = load_configs()" on, with
\* current the id of self.current_config or None and name, is_default the
\* validated fields of the editor
save_config(disk, current, name, is_default) ==
    LET loaded == load_configs(disk)
        cfg == [id |-> loaded.disk.next_uuid, name |-> name,
                is_default |-> is_default]
        d1 == [loaded.disk EXCEPT !.next_uuid = @ + 1]
        edited == IF current # None
                  THEN update_config_in(loaded.ret, current, cfg)
                  ELSE add_config_to(BeforeAdd(loaded.ret, is_default), cfg)
        saved == save_configs(d1, edited.profile, TRUE)
    IN  [loaded |-> loaded.ret, applied |-> edited.ret,
         message |-> Reports(edited.ret, saved.ret), disk |-> saved.disk]

\* the config directory when the dialog opens: no config file, or one
\* written earlier
DialogStart ==
    /\ cm_disk \in
         {[file |-> f, backups |-> <<>>, env |-> Missing, env_migrated |-> FALSE,
           xfile |-> Missing, now |-> [sec |-> 3, usec |-> 0], next_uuid |-> 7,
           copies |-> <<>>] :
          f \in {Missing, Json(to_dict(OneConfig, Epoch)),
                 Json(to_dict(TwoConfigs, Epoch))}}
    /\ cm_log = <<>>

\* the ids the table of the dialog shows: those of the stored configs
Shown(disk) ==
    IF disk.file.kind = "json"
    THEN {Stored(disk).configs[k].id : k \in 1..Len(Stored(disk).configs)}
    ELSE {}

\* the save button is pressed with a config of the table selected
\* (self.current_config) or with none after "add"
SaveConfig ==
    /\ Len(cm_log) < MaxDialogSaves
    /\ \E elapsed \in Elapsed, current \in Shown(cm_disk) \cup {None},
          name \in Names, is_default \in BOOLEAN :
          LET r == save_config(Later(elapsed), current, name, is_default)
          IN  /\ cm_disk' = r.disk
              /\ cm_log' = Append(cm_log,
                              [op |-> "_save_config", current |-> current,
                               name |-> name, is_default |-> is_default,
                               loaded |-> r.loaded, applied |-> r.applied,
                               message |-> r.message, before |-> cm_disk])

DialogStep == SaveConfig

\* C25: _save_config shows the success message only when the config of the
\* editor was added to or updated in the saved profile; after an add that
\* was rejected for its name the stored profile, default included, is the
\* one that was loaded.
C25_SuccessMeansApplied ==
    LastIs("_save_config") =>
        /\ LastCall.message = "saved" => LastCall.applied
        /\ (LastCall.current = None /\ NameTaken(LastCall.loaded.configs, LastCall.name))
              => FileHolds(cm_disk, LastCall.loaded)

----------------------------------------------------------------------------
(***************************************************************************)
(* AddBookmarkWorker.run and batch_add_bookmarks_to_pdfs                   *)
(***************************************************************************)

\* bound
MaxBookmarkFiles == 3   \* files of file_bookmarks

\* add_bookmarks_to_pdf saves the output file and returns success, returns
\* an error result before pdf.save (no valid bookmark), or catches an
\* exception of the PDF library and returns an error result
BookmarkOutcomes == {"saved", "invalid", "error"}

ab_total == Len(ab_outcomes)

AddBookmarkStart ==
    /\ ab_outcomes \in UNION {[1..n -> BookmarkOutcomes] : n \in 1..MaxBookmarkFiles}
    /\ ab_pc = "start"
    /\ ab_k = 0
    /\ ab_i = 0
    /\ ab_is_running = TRUE
    /\ ab_results = <<>>
    /\ ab_written = {}
    /\ ab_signals = <<>>
    /\ ab_stop_file = NotStopped

AddBookmarkIdle ==
    /\ ab_outcomes = <<>>
    /\ ab_pc = "idle"
    /\ ab_k = 0
    /\ ab_i = 0
    /\ ab_is_running = TRUE
    /\ ab_results = <<>>
    /\ ab_written = {}
    /\ ab_signals = <<>>
    /\ ab_stop_file = NotStopped

\* AddBookmarkWorker.stop, called by stop_current_task while the thread
\* is running
AddBookmarkStop ==
    /\ ab_pc \notin {"idle", "done"}
    /\ ab_is_running
    /\ ab_is_running' = FALSE
    /\ ab_stop_file' = IF ab_pc \in {"start", "batch"} THEN ab_k
                       ELSE IF ab_pc = "file" THEN ab_k + 1
                       ELSE ab_total
    /\ UNCHANGED <<ab_outcomes, ab_pc, ab_k, ab_i, ab_results, ab_written,
                   ab_signals>>

\* run() lists the files, makes the output directory and calls
\* batch_add_bookmarks_to_pdfs
AddBookmarkRunBegin ==
    /\ ab_pc = "start"
    /\ ab_pc' = "batch"
    /\ UNCHANGED <<ab_outcomes, ab_k, ab_i, ab_is_running, ab_results,
                   ab_written, ab_signals, ab_stop_file>>

\* "for file_path in file_bookmarks:" the loop of
\* batch_add_bookmarks_to_pdfs has no way to see the worker's flag
BatchGoesOn(k, flag) == k < ab_total

\* head of the loop of batch_add_bookmarks_to_pdfs; "return results" at
\* its end
batch_add_bookmarks_to_pdfs ==
    /\ ab_pc = "batch"
    /\ ab_pc' = IF BatchGoesOn(ab_k, ab_is_running) THEN "file" ELSE "relay"
    /\ UNCHANGED <<ab_outcomes, ab_k, ab_i, ab_is_running, ab_results,
                   ab_written, ab_signals, ab_stop_file>>

\* add_bookmarks_to_pdf on file k and results.append(result)
BatchFile ==
    /\ ab_pc = "file"
    /\ ab_written' = IF ab_outcomes[ab_k + 1] = "saved"
                     THEN ab_written \cup {ab_k} ELSE ab_written
    /\ ab_results' = Append(ab_results,
                        [file |-> ab_k, success |-> (ab_outcomes[ab_k + 1] = "saved")])
    /\ ab_k' = ab_k + 1
    /\ ab_pc' = "batch"
    /\ UNCHANGED <<ab_outcomes, ab_i, ab_is_running, ab_signals, ab_stop_file>>

\* "for i, result in enumerate(results): if not self._is_running: break"
RelayHead ==
    /\ ab_pc = "relay"
    /\ ab_pc' = IF ab_i >= Len(ab_results) \/ ~ab_is_running
                THEN "exit" ELSE "emit"
    /\ UNCHANGED <<ab_outcomes, ab_k, ab_i, ab_is_running, ab_results,
                   ab_written, ab_signals, ab_stop_file>>

\* file_finished.emit(files.index(result['file']), result) and
\* progress.emit(int((i + 1) / total * 100))
RelayResult ==
    /\ ab_pc = "emit"
    /\ ab_signals' = ab_signals \o
          << [sig |-> "file_finished", index |-> ab_results[ab_i + 1].file,
              success |-> ab_results[ab_i + 1].success, value |-> 0],
             [sig |-> "progress", index |-> ab_i, success |-> TRUE,
              value |-> ProgressValue(ab_i, ab_total)] >>
    /\ ab_i' = ab_i + 1
    /\ ab_pc' = "relay"
    /\ UNCHANGED <<ab_outcomes, ab_k, ab_is_running, ab_results, ab_written,
                   ab_stop_file>>

\* self.finished.emit()
AddBookmarkRunEnd ==
    /\ ab_pc = "exit"
    /\ ab_signals' = Append(ab_signals, [sig |-> "finished", index |-> ab_total,
                                         success |-> TRUE, value |-> 0])
    /\ ab_pc' = "done"
    /\ UNCHANGED <<ab_outcomes, ab_k, ab_i, ab_is_running, ab_results,
                   ab_written, ab_stop_file>>

AddBookmarkStep ==
    \/ AddBookmarkStop
    \/ AddBookmarkRunBegin
    \/ batch_add_bookmarks_to_pdfs
    \/ BatchFile
    \/ RelayHead
    \/ RelayResult
    \/ AddBookmarkRunEnd

\* the files handed to add_bookmarks_to_pdf so far
ab_processed == {ab_results[n].file : n \in 1..Len(ab_results)}

\* C21: once stop() was called, no file whose turn had not yet come is
\* processed and no output file is written for it.
C21_NoBookmarkFileAfterStop ==
    ab_stop_file # NotStopped =>
        \A k \in 0..(ab_total - 1) :
            k >= ab_stop_file => (k \notin ab_processed /\ k \notin ab_written)

----------------------------------------------------------------------------
(***************************************************************************)
(* MergeTabWidget.start_task and the ProcessingWorker it starts            *)
(***************************************************************************)

\* bound
MaxMergeRows == 3       \* rows of the file table

\* the items of engine_combo
MergeEngines == {"Pikepdf", "Ghostscript"}
\* what QFileDialog.getSaveFileName returns: cancelled, a path without and
\* with the extension
SavePaths == {"", "out", "out.pdf"}
\* what the body of the merge function does once it runs: it writes the
\* output and returns success, returns an error result, or raises
MergeBodies == {"merged", "failed", "raised"}

\* 'if "Ghostscript" in engine: ... else: target_function = merge_pdfs'
TargetFunction(engine) ==
    IF engine = "Ghostscript" THEN "merge_pdfs_with_ghostscript" ELSE "merge_pdfs"

\* the parameters of merge_pdfs and of merge_pdfs_with_ghostscript
Parameters(target) == {"input_paths", "output_path", "progress_callback"}

\* Python binds a call only when every keyword names a parameter; otherwise
\* the call raises TypeError before the body runs
Binds(target, kwargs) == kwargs \subseteq Parameters(target)

\* the call of the decorated merge function: handle_exception turns the
\* TypeError of the binding and an exception of the body into an error dict
CallTarget(target, kwargs, body) ==
    IF ~Binds(target, kwargs)
    THEN [executed |-> FALSE, result |-> "failure"]
    ELSE [executed |-> TRUE,
          result |-> IF body = "merged" THEN "success" ELSE "failure"]

\* "if not output_path.lower().endswith(".pdf"): output_path += ".pdf""
WithPdfExtension(path) == IF path = "out" THEN "out.pdf" ELSE path

NoCall == [target |-> "none", files |-> 0, output_path |-> "", kwargs |-> {},
           executed |-> FALSE, result |-> "none"]

MergeStart ==
    /\ mg_in \in [rows : 0..MaxMergeRows, output_path : SavePaths,
                  engine : MergeEngines, body : MergeBodies]
    /\ mg_pc = "ready"
    /\ mg_is_running = TRUE
    /\ mg_call = NoCall
    /\ mg_events = <<>>

MergeIdle ==
    /\ mg_in = [rows |-> 0, output_path |-> "", engine |-> "Pikepdf",
                body |-> "merged"]
    /\ mg_pc = "idle"
    /\ mg_is_running = TRUE
    /\ mg_call = NoCall
    /\ mg_events = <<>>

\* MergeTabWidget.start_task: the start button was pressed
start_task ==
    /\ mg_pc = "ready"
    /\ IF mg_in.rows < 2
       THEN /\ mg_pc' = "returned"
            /\ mg_events' = Append(mg_events, "warning")
            /\ UNCHANGED mg_call
       ELSE IF mg_in.output_path = ""
       THEN /\ mg_pc' = "returned"
            /\ UNCHANGED <<mg_events, mg_call>>
       ELSE /\ mg_pc' = "start"
            /\ mg_events' = Append(mg_events, "task_started")
            /\ mg_call' = [NoCall EXCEPT
                              !.target = TargetFunction(mg_in.engine),
                              !.files = mg_in.rows,
                              !.output_path = WithPdfExtension(mg_in.output_path)]
    /\ UNCHANGED <<mg_in, mg_is_running>>

\* BaseTabWidget.stop_task while the worker thread is running
stop_task ==
    /\ mg_pc \in {"start", "target", "finally"}
    /\ mg_is_running
    /\ mg_is_running' = FALSE
    /\ mg_events' = Append(mg_events, "task_finished: stopped")
    /\ UNCHANGED <<mg_in, mg_pc, mg_call>>

\* ProcessingWorker.run up to the call: "if not self._is_running: return",
\* then self.kwargs["worker_signals"] = {...}
MergeRunBegin ==
    /\ mg_pc = "start"
    /\ IF mg_is_running
       THEN /\ mg_pc' = "target"
            /\ mg_call' = [mg_call EXCEPT !.kwargs = {"worker_signals"}]
       ELSE /\ mg_pc' = "finally"
            /\ UNCHANGED mg_call
    /\ UNCHANGED <<mg_in, mg_is_running, mg_events>>

\* "self.target_function(*self.args, **self.kwargs)": the value the
\* function returns is dropped
MergeRunTarget ==
    /\ mg_pc = "target"
    /\ LET r == CallTarget(mg_call.target, mg_call.kwargs, mg_in.body)
       IN  mg_call' = [mg_call EXCEPT !.executed = r.executed, !.result = r.result]
    /\ mg_pc' = "finally"
    /\ UNCHANGED <<mg_in, mg_is_running, mg_events>>

\* "finally: self.finished.emit()", which runs on_all_finished:
\* task_finished.emit("所有文件合并完成。")
MergeRunFinally ==
    /\ mg_pc = "finally"
    /\ mg_pc' = "done"
    /\ mg_events' = Append(mg_events, "task_finished: all merged")
    /\ UNCHANGED <<mg_in, mg_is_running, mg_call>>

MergeStep ==
    \/ start_task
    \/ stop_task
    \/ MergeRunBegin
    \/ MergeRunTarget
    \/ MergeRunFinally

\* the positions of an event in what the tab has shown
MergeEvent(e) == {n \in 1..Len(mg_events) : mg_events[n] = e}

\* C22: when the tab announces that all files are merged in a run that
\* was not stopped, the merge function has run on the files and its result,
\* success or failure, was handed to on_file_finished before.
C22_ResultBeforeCompletion ==
    \A n \in MergeEvent("task_finished: all merged") :
        mg_is_running =>
        /\ mg_call.executed
        /\ \E m \in 1..(n - 1) :
              mg_events[m] \in {"file_finished: success", "file_finished: failure"}

----------------------------------------------------------------------------
(***************************************************************************)
(* Specifications                                                          *)
(***************************************************************************)

ProfileIdle ==
    /\ configs = <<>>
    /\ active_config_id = None
    /\ default_config_id = None
    /\ nextId = 1
    /\ call = [op |-> "init", id |-> None, ret |-> TRUE,
               pre |-> [configs |-> <<>>, active |-> None, default |-> None]]

ProfileInit == ProfileStart /\ BookmarkIdle /\ HandleIdle /\ GuiIdle /\ BatchIdle /\ OcrIdle /\ DispatchIdle /\ WorkerIdle /\ ManagerIdle /\ AddBookmarkIdle /\ MergeIdle
ProfileNext == ProfileStep /\ UNCHANGED <<bookmarkVars, handleVars, guiVars, batchVars, ocrVars, dispatchVars, workerVars, managerVars, addBookmarkVars, mergeVars>>
SpecProfile == ProfileInit /\ [][ProfileNext]_vars

ProfileEditsNext == ProfileEditsStep /\ UNCHANGED <<bookmarkVars, handleVars, guiVars, batchVars, ocrVars, dispatchVars, workerVars, managerVars, addBookmarkVars, mergeVars>>
SpecProfileEdits == ProfileInit /\ [][ProfileEditsNext]_vars

BookmarkInit == BookmarkStart /\ ProfileIdle /\ HandleIdle /\ GuiIdle /\ BatchIdle /\ OcrIdle /\ DispatchIdle /\ WorkerIdle /\ ManagerIdle /\ AddBookmarkIdle /\ MergeIdle
BookmarkNext == BookmarkStep /\ UNCHANGED <<profileVars, handleVars, guiVars, batchVars, ocrVars, dispatchVars, workerVars, managerVars, addBookmarkVars, mergeVars>>
SpecBookmark == BookmarkInit /\ [][BookmarkNext]_vars

HandleInit == HandleStart /\ ProfileIdle /\ BookmarkIdle /\ GuiIdle /\ BatchIdle /\ OcrIdle /\ DispatchIdle /\ WorkerIdle /\ ManagerIdle /\ AddBookmarkIdle /\ MergeIdle
HandleNext == HandleStep /\ UNCHANGED <<profileVars, bookmarkVars, guiVars, batchVars, ocrVars, dispatchVars, workerVars, managerVars, addBookmarkVars, mergeVars>>
SpecHandle == HandleInit /\ [][HandleNext]_vars

GuiInit == GuiStart /\ ProfileIdle /\ BookmarkIdle /\ HandleIdle /\ BatchIdle /\ OcrIdle /\ DispatchIdle /\ WorkerIdle /\ ManagerIdle /\ AddBookmarkIdle /\ MergeIdle
GuiNext == GuiStep /\ UNCHANGED <<profileVars, bookmarkVars, handleVars, batchVars, ocrVars, dispatchVars, workerVars, managerVars, addBookmarkVars, mergeVars>>
SpecGui == GuiInit /\ [][GuiNext]_vars

PressesNext == PressesStep /\ UNCHANGED <<profileVars, bookmarkVars, handleVars, batchVars, ocrVars, dispatchVars, workerVars, managerVars, addBookmarkVars, mergeVars>>
SpecGuiPresses == GuiInit /\ [][PressesNext]_vars

NoStopNext == NoStopStep /\ UNCHANGED <<profileVars, bookmarkVars, handleVars, batchVars, ocrVars, dispatchVars, workerVars, managerVars, addBookmarkVars, mergeVars>>
SpecGuiNoStop == GuiInit /\ [][NoStopNext]_vars

BatchInit == BatchStart /\ ProfileIdle /\ BookmarkIdle /\ HandleIdle /\ GuiIdle /\ OcrIdle /\ DispatchIdle /\ WorkerIdle /\ ManagerIdle /\ AddBookmarkIdle /\ MergeIdle
BatchNext == BatchStep /\ UNCHANGED <<profileVars, bookmarkVars, handleVars, guiVars, ocrVars, dispatchVars, workerVars, managerVars, addBookmarkVars, mergeVars>>
SpecBatch == BatchInit /\ [][BatchNext]_vars

OcrInit == OcrStart /\ ProfileIdle /\ BookmarkIdle /\ HandleIdle /\ GuiIdle /\ BatchIdle /\ DispatchIdle /\ WorkerIdle /\ ManagerIdle /\ AddBookmarkIdle /\ MergeIdle
OcrNext == OcrStep /\ UNCHANGED <<profileVars, bookmarkVars, handleVars, guiVars, batchVars, dispatchVars, workerVars, managerVars, addBookmarkVars, mergeVars>>
SpecOcr == OcrInit /\ [][OcrNext]_vars

DispatchInit == DispatchStart /\ ProfileIdle /\ BookmarkIdle /\ HandleIdle /\ GuiIdle /\ BatchIdle /\ OcrIdle /\ WorkerIdle /\ ManagerIdle /\ AddBookmarkIdle /\ MergeIdle
DispatchNext == DispatchStep /\ UNCHANGED <<profileVars, bookmarkVars, handleVars, guiVars, batchVars, ocrVars, workerVars, managerVars, addBookmarkVars, mergeVars>>
SpecDispatch == DispatchInit /\ [][DispatchNext]_vars

WorkerInit == WorkerStart /\ ProfileIdle /\ BookmarkIdle /\ HandleIdle /\ GuiIdle /\ BatchIdle /\ OcrIdle /\ DispatchIdle /\ ManagerIdle /\ AddBookmarkIdle /\ MergeIdle
WorkerNext == WorkerRunStep /\ UNCHANGED <<profileVars, bookmarkVars, handleVars, guiVars, batchVars, ocrVars, dispatchVars, managerVars, addBookmarkVars, mergeVars>>
SpecWorker == WorkerInit /\ [][WorkerNext]_vars

BackupsInit == BackupsStart /\ ProfileIdle /\ BookmarkIdle /\ HandleIdle /\ GuiIdle /\ BatchIdle /\ OcrIdle /\ DispatchIdle /\ WorkerIdle /\ AddBookmarkIdle /\ MergeIdle
BackupsNext == BackupsStep /\ UNCHANGED <<profileVars, bookmarkVars, handleVars, guiVars, batchVars, ocrVars, dispatchVars, workerVars, addBookmarkVars, mergeVars>>
SpecBackups == BackupsInit /\ [][BackupsNext]_vars

ManagerInit == ManagerStart /\ ProfileIdle /\ BookmarkIdle /\ HandleIdle /\ GuiIdle /\ BatchIdle /\ OcrIdle /\ DispatchIdle /\ WorkerIdle /\ AddBookmarkIdle /\ MergeIdle
ManagerNext == ManagerStep /\ UNCHANGED <<profileVars, bookmarkVars, handleVars, guiVars, batchVars, ocrVars, dispatchVars, workerVars, addBookmarkVars, mergeVars>>
SpecConfigManager == ManagerInit /\ [][ManagerNext]_vars

AddBookmarkInit == AddBookmarkStart /\ ProfileIdle /\ BookmarkIdle /\ HandleIdle /\ GuiIdle /\ BatchIdle /\ OcrIdle /\ DispatchIdle /\ WorkerIdle /\ ManagerIdle /\ MergeIdle
AddBookmarkNext == AddBookmarkStep /\ UNCHANGED <<profileVars, bookmarkVars, handleVars, guiVars, batchVars, ocrVars, dispatchVars, workerVars, managerVars, mergeVars>>
SpecAddBookmark == AddBookmarkInit /\ [][AddBookmarkNext]_vars

MergeInit == MergeStart /\ ProfileIdle /\ BookmarkIdle /\ HandleIdle /\ GuiIdle /\ BatchIdle /\ OcrIdle /\ DispatchIdle /\ WorkerIdle /\ ManagerIdle /\ AddBookmarkIdle
MergeNext == MergeStep /\ UNCHANGED <<profileVars, bookmarkVars, handleVars, guiVars, batchVars, ocrVars, dispatchVars, workerVars, managerVars, addBookmarkVars>>
SpecMerge == MergeInit /\ [][MergeNext]_vars

DialogInit == DialogStart /\ ProfileIdle /\ BookmarkIdle /\ HandleIdle /\ GuiIdle /\ BatchIdle /\ OcrIdle /\ DispatchIdle /\ WorkerIdle /\ AddBookmarkIdle /\ MergeIdle
DialogNext == DialogStep /\ UNCHANGED <<profileVars, bookmarkVars, handleVars, guiVars, batchVars, ocrVars, dispatchVars, workerVars, addBookmarkVars, mergeVars>>
SpecDialog == DialogInit /\ [][DialogNext]_vars

====
